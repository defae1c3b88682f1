--------------------------- MODULE ArithmeticProof ---------------------------
(***************************************************************************)
(* Three parts of the kernel that are right because of arithmetic: the     *)
(* layout that kmem_cache_create computes, for every object size and every *)
(* page, header, word and link size; the division of a region by kmem_init *)
(* for every page, table and window size; and sys_pause for every width of *)
(* ticks, any number of processes and every argument.                      *)
(***************************************************************************)
EXTENDS SlabLayout, KmemInit, Clock, TLAPS

(* What ALIGN_UP returns: the next multiple.                               *)
LEMMA AlignUp ==
  ASSUME NEW a \in Nat, NEW w \in Nat \ {0}
  PROVE  /\ ALIGN_UP(a, w) \in Nat
         /\ ALIGN_UP(a, w) >= a
         /\ ALIGN_UP(a, w) % w = 0
<1>1. a % w \in 0 .. w-1
  OBVIOUS
<1>2. a = w * (a \div w) + (a % w)
  OBVIOUS
<1>3. CASE a % w = 0
  BY <1>3 DEF ALIGN_UP
<1>4. CASE a % w # 0
  <2>1. ALIGN_UP(a, w) = a + (w - (a % w))
    BY <1>4 DEF ALIGN_UP
  <2>2. ALIGN_UP(a, w) = w * ((a \div w) + 1)
    BY <2>1, <1>2, <1>1
  <2>3. (w * ((a \div w) + 1)) % w = 0
    OBVIOUS
  <2> QED BY <2>1, <2>2, <2>3, <1>1
<1> QED BY <1>3, <1>4

(* ALIGN_UP does not overtake: it returns the least multiple.              *)
LEMMA AlignUpMono ==
  ASSUME NEW a \in Nat, NEW b \in Nat, NEW w \in Nat \ {0}, a <= b
  PROVE  ALIGN_UP(a, w) <= ALIGN_UP(b, w)
<1> DEFINE qa == a \div w
           qb == b \div w
<1>1. /\ a = w * qa + (a % w) /\ a % w \in 0 .. w-1 /\ qa \in Nat
      /\ b = w * qb + (b % w) /\ b % w \in 0 .. w-1 /\ qb \in Nat
  OBVIOUS
<1>2. qa <= qb
  OBVIOUS
<1>3. CASE qa = qb
  BY <1>1, <1>3 DEF ALIGN_UP
<1>4. CASE qa < qb
  <2>1. w * qa + w <= w * qb
    BY <1>1, <1>4
  <2>2. ALIGN_UP(a, w) <= w * qa + w
    BY <1>1 DEF ALIGN_UP
  <2>3. w * qb <= ALIGN_UP(b, w)
    BY <1>1 DEF ALIGN_UP
  <2>4. ALIGN_UP(a, w) \in Nat /\ ALIGN_UP(b, w) \in Nat
    BY AlignUp
  <2> QED BY <2>1, <2>2, <2>3, <2>4, <1>1
<1> QED BY <1>1, <1>2, <1>3, <1>4

(* Division: n objects of size s fit where a \div s = n.                   *)
LEMMA DivFits ==
  ASSUME NEW a \in Nat, NEW s \in Nat \ {0}
  PROVE  a \div s \in Nat /\ (a \div s) * s <= a
OBVIOUS

LEMMA DivMono ==
  ASSUME NEW a \in Nat, NEW b \in Nat, NEW s \in Nat \ {0}, a <= b
  PROVE  a \div s <= b \div s
OBVIOUS

-----------------------------------------------------------------------------
(* While the loop runs the object size is already what it will be, and no  *)
(* smaller slab has been enough.                                           *)
Rounded == pc \in {"loop", "created"} => object_size >= size /\ object_size % WORD = 0

Tried == pc = "loop" => \A o \in SlabOrders : o < slab_order => ~enough(o, object_size)

(* kmem_init makes the caches of its table, in order, and none is missing. *)
CachesExact ==
  /\ \A j \in 1 .. Len(kmalloc_caches) : kmalloc_caches[j] = kmalloc_caches_sizes[j]
  /\ ~caches_made => /\ pc \in {"idle", "loop", "created"}
                     /\ pc # "idle" => object_size = kmalloc_caches_sizes[next_cache]

LayoutInv == LayoutTypeOK /\ Rounded /\ Tried /\ CachesExact /\ LayoutFits /\ KmallocFits

(* The two tables are the same, and ascend.                                *)
LEMMA Tables ==
  /\ \A i \in 1 .. KMALLOC_NUM_CACHES : /\ kmalloc_caches_sizes[i] \in Nat \ {0}
                                        /\ kmalloc_index_limits[i] = kmalloc_caches_sizes[i]
  /\ \A i, j \in 1 .. KMALLOC_NUM_CACHES :
       i < j => kmalloc_caches_sizes[i] < kmalloc_caches_sizes[j]
  BY DEF kmalloc_caches_sizes, kmalloc_index_limits, KMALLOC_NUM_CACHES

(* The core of it: what loop_found stores is a sound layout.               *)
LEMMA FoundFits ==
  ASSUME LayoutTypeOK, Rounded, loop_found
  PROVE  /\ objs_per_slab' \in Nat /\ obj_offset' \in Nat
         /\ obj_offset' >= HEADER + objs_per_slab' * LINK /\ obj_offset' % WORD = 0
         /\ obj_offset' + objs_per_slab' * object_size <= slab_bytes(slab_order)
         /\ objs_per_slab' >= min_objs(object_size) /\ objs_per_slab' <= NOFREE
<1> DEFINE B  == slab_bytes(slab_order)
           s  == object_size
           n0 == count0(slab_order, s)
           n  == count(slab_order, s)
           h0 == header(n0)
           h  == header(n)
           u  == usable(slab_order, s)
           m  == min_objs(s)
<1>1. /\ s \in Nat \ {0} /\ s >= WORD /\ slab_order \in SlabOrders
      /\ HEADER \in Nat \ {0} /\ WORD \in Nat \ {0} /\ LINK \in Nat \ {0} /\ NOFREE \in Nat
  BY LayoutAssumption DEF LayoutTypeOK, loop_found, SlabOrders
<1>2. B \in Nat /\ B >= HEADER /\ B <= NOFREE * WORD
  BY <1>1, SlabBytesAssumption
<1>3. ALIGN_UP(HEADER, WORD) = HEADER
  BY LayoutAssumption DEF ALIGN_UP
<1>4. n0 = (B - HEADER) \div s /\ B - HEADER \in Nat
  BY <1>1, <1>2, <1>3 DEF count0
<1>5. n0 \in Nat
  BY <1>1, <1>4, DivFits
<1>6. HEADER + n0 * LINK \in Nat
  BY <1>1, <1>5
<1>7. h0 \in Nat /\ h0 >= HEADER + n0 * LINK
  BY <1>1, <1>6, AlignUp DEF header
<1>8. h0 >= HEADER
  BY <1>1, <1>5, <1>7
<1>9. u \in Nat /\ u <= B - HEADER /\ (u = 0 \/ u = B - h0)
  BY <1>2, <1>7, <1>8, <1>1 DEF usable
<1>10. n \in Nat /\ n * s <= u
  BY <1>1, <1>9, DivFits DEF count
<1>11. n <= n0
  BY <1>1, <1>4, <1>9, DivMono DEF count
<1>12. HEADER + n * LINK \in Nat /\ HEADER + n * LINK <= HEADER + n0 * LINK
  BY <1>1, <1>5, <1>10, <1>11
<1>13. h \in Nat /\ h >= HEADER + n * LINK /\ h % WORD = 0
  BY <1>1, <1>12, AlignUp DEF header
<1>14. h <= h0
  BY <1>1, <1>6, <1>12, AlignUpMono DEF header
<1>15. n >= m /\ m \in Nat \ {0}
  BY <1>1, LayoutAssumption DEF loop_found, enough, min_objs
<1>16. u # 0
  BY <1>1, <1>10, <1>15
<1>17. h + n * s <= B
  BY <1>1, <1>2, <1>7, <1>9, <1>10, <1>13, <1>14, <1>16
<1>18. n * WORD <= n * s /\ n * s \in Nat
  BY <1>1, <1>10
<1>19. n * WORD <= NOFREE * WORD
  BY <1>1, <1>2, <1>10, <1>13, <1>17, <1>18
<1>20. n <= NOFREE
  BY <1>1, <1>10, <1>19
<1>21. objs_per_slab' = n /\ obj_offset' = h
  BY DEF loop_found
<1> QED BY <1>10, <1>13, <1>15, <1>17, <1>20, <1>21

(* What kmalloc's choice of a cache means for the size asked for.          *)
LEMMA KmallocChoice ==
  ASSUME LayoutInv, NEW sz \in Sizes, NEW i \in 1 .. KMALLOC_NUM_CACHES, kmalloc(sz, i)
  PROVE  LayoutInv'
<1> DEFINE T == kmalloc_caches_sizes
           a == ALIGN_UP(sz, WORD)
           N == KMALLOC_NUM_CACHES
<1>1. /\ sz \in Nat /\ WORD \in Nat \ {0} /\ N \in Nat /\ i \in Nat
  BY LayoutAssumption DEF KMALLOC_NUM_CACHES
<1>2. a \in Nat /\ a >= sz
  BY <1>1, AlignUp
<1>3. Len(kmalloc_caches) = N /\ \A j \in 1 .. N : kmalloc_caches[j] = T[j] /\ T[j] \in Nat \ {0}
  BY Tables DEF LayoutInv, CachesExact, kmalloc, caches_made
<1>4. a <= T[i] /\ \A j \in 1 .. i-1 : a > T[j]
  BY <1>1, Tables DEF kmalloc, kmalloc_index
<1>5. ASSUME NEW j \in 1 .. N, T[j] >= sz PROVE T[i] <= T[j]
  <2>1. T[j] % WORD = 0
    BY KmallocSizeAssumption
  <2>2. ALIGN_UP(T[j], WORD) = T[j]
    BY <2>1 DEF ALIGN_UP
  <2>3. a <= T[j]
    BY <1>1, <1>3, <1>5, <2>2, AlignUpMono
  <2>4. ~(j < i)
    BY <1>1, <1>2, <1>3, <1>4, <2>3
  <2> QED BY <1>1, <1>3, <2>4, Tables
<1>6. /\ size' = sz /\ index' = i /\ pc' = "kmalloc" /\ UNCHANGED <<layout, kmalloc_caches>>
  BY <1>3 DEF kmalloc
<1>7. KmallocFits'
  <2>1. T[i] >= sz
    BY <1>1, <1>2, <1>3, <1>4
  <2> HIDE DEF T, N
  <2>2. kmalloc_caches[i] >= sz
    BY Zenon, <1>3, <2>1 DEF N
  <2>3. ASSUME NEW j \in 1 .. Len(kmalloc_caches), kmalloc_caches[j] >= sz
        PROVE  kmalloc_caches[i] <= kmalloc_caches[j]
    BY Zenon, <1>3, <1>5, <2>3 DEF N
  <2> QED BY Zenon, <1>6, <2>2, <2>3 DEF KmallocFits
<1>8. caches_made /\ caches_made'
  BY <1>6 DEF kmalloc, caches_made
<1> QED BY <1>1, <1>6, <1>7, <1>8
        DEF LayoutInv, LayoutTypeOK, Rounded, Tried, CachesExact, LayoutFits, layout

(* ... and its refusal.                                                    *)
LEMMA KmallocRefusal ==
  ASSUME LayoutInv, NEW sz \in Sizes, kmalloc_null(sz)
  PROVE  LayoutInv'
<1> DEFINE T == kmalloc_caches_sizes
           N == KMALLOC_NUM_CACHES
<1>1. sz \in Nat /\ WORD \in Nat \ {0}
  BY LayoutAssumption
<1>2. Len(kmalloc_caches) = N /\ \A j \in 1 .. N : kmalloc_caches[j] = T[j] /\ T[j] \in Nat \ {0}
  BY Tables DEF LayoutInv, CachesExact, kmalloc_null, caches_made
<1>3. ASSUME NEW j \in 1 .. N, sz # 0 PROVE T[j] < sz
  <2>1. ALIGN_UP(sz, WORD) > T[j]
    BY <1>3, Tables DEF kmalloc_null, no_index
  <2>2. T[j] % WORD = 0
    BY KmallocSizeAssumption
  <2>3. ALIGN_UP(T[j], WORD) = T[j]
    BY <2>2 DEF ALIGN_UP
  <2>4. sz <= T[j] => ALIGN_UP(sz, WORD) <= T[j]
    BY <1>1, <1>2, <2>3, AlignUpMono
  <2>5. ALIGN_UP(sz, WORD) \in Nat
    BY <1>1, AlignUp
  <2> QED BY <1>1, <1>2, <2>1, <2>4, <2>5
<1>4. size' = sz /\ pc' = "kmalloc_null" /\ UNCHANGED <<layout, kmalloc_caches, index>>
  BY DEF kmalloc_null
<1>5. KmallocFits'
  <2> HIDE DEF T, N
  <2> QED BY <1>2, <1>3, <1>4 DEF KmallocFits
<1>6. caches_made /\ caches_made'
  BY <1>4 DEF kmalloc_null, caches_made
<1> QED BY <1>1, <1>4, <1>5, <1>6
        DEF LayoutInv, LayoutTypeOK, Rounded, Tried, CachesExact, LayoutFits, layout

(* While kmem_init has caches to make.                                     *)
LEMMA CachesLeft ==
  ASSUME LayoutTypeOK, ~caches_made
  PROVE  /\ kmalloc_caches \in Seq(Nat) /\ Len(kmalloc_caches) \in Nat
         /\ Len(kmalloc_caches) < KMALLOC_NUM_CACHES /\ next_cache \in 1 .. KMALLOC_NUM_CACHES
<1>1. kmalloc_caches \in Seq(Nat) /\ Len(kmalloc_caches) <= KMALLOC_NUM_CACHES
  BY Zenon DEF LayoutTypeOK
<1>2. Len(kmalloc_caches) \in Nat
  BY <1>1
<1>3. Len(kmalloc_caches) # KMALLOC_NUM_CACHES
  BY Zenon DEF caches_made
<1>4. ASSUME NEW n \in Nat, n <= KMALLOC_NUM_CACHES, n # KMALLOC_NUM_CACHES
      PROVE  n < KMALLOC_NUM_CACHES /\ n + 1 \in 1 .. KMALLOC_NUM_CACHES
  BY <1>4 DEF KMALLOC_NUM_CACHES
<1> QED BY Zenon, <1>1, <1>2, <1>3, <1>4 DEF next_cache

(* A call of kmem_cache_create begins.                                     *)
LEMMA CreateStep ==
  ASSUME LayoutInv, NEW sz \in Nat, kmem_cache_create(sz),
         ~caches_made => sz = kmalloc_caches_sizes[next_cache] /\ rounded(sz) = sz
  PROVE  LayoutInv'
<1> DEFINE a == IF sz < WORD THEN WORD ELSE sz
<1>1. WORD \in Nat \ {0} /\ MAX_SLAB_ORDER \in Nat
  BY LayoutAssumption
<1>2. a \in Nat /\ a >= WORD /\ a >= sz
  BY <1>1
<1>3. ALIGN_UP(a, WORD) \in Nat /\ ALIGN_UP(a, WORD) >= a /\ ALIGN_UP(a, WORD) % WORD = 0
  BY <1>1, <1>2, AlignUp
<1>4. /\ object_size' = ALIGN_UP(a, WORD) /\ object_size' = rounded(sz)
      /\ size' = sz /\ slab_order' = 0 /\ pc' = "loop"
      /\ UNCHANGED <<objs_per_slab, obj_offset, kmalloc_caches, index>>
  BY DEF kmem_cache_create, rounded
<1> HIDE DEF a
<1>5. /\ object_size' \in Nat /\ object_size' >= WORD
      /\ object_size' >= size' /\ object_size' % WORD = 0
  BY <1>1, <1>2, <1>3, <1>4
<1>6. LayoutTypeOK' /\ Rounded' /\ LayoutFits' /\ KmallocFits'
  BY <1>1, <1>4, <1>5 DEF LayoutInv, LayoutTypeOK, Rounded, LayoutFits, KmallocFits
<1>7. Tried'
  BY <1>1, <1>4 DEF Tried, SlabOrders
<1>8. CachesExact'
  BY <1>4 DEF LayoutInv, CachesExact, caches_made, next_cache
<1> QED BY <1>6, <1>7, <1>8 DEF LayoutInv

(* kmem_init never gets NULL: some slab order is enough for its sizes.     *)
LEMMA NoNullInInit == ASSUME LayoutInv, create_null PROVE caches_made
<1> SUFFICES ASSUME ~caches_made PROVE FALSE
  OBVIOUS
<1>1. next_cache \in 1 .. KMALLOC_NUM_CACHES
  BY Zenon, CachesLeft DEF LayoutInv
<1>2. object_size = kmalloc_caches_sizes[next_cache]
  BY DEF LayoutInv, CachesExact, create_null
<1>3. PICK o \in SlabOrders : enough(o, object_size)
  BY <1>1, <1>2, KmallocSizeAssumption
<1>4. o < slab_order
  BY LayoutAssumption DEF create_null, LayoutInv, LayoutTypeOK, SlabOrders
<1> QED BY <1>3, <1>4 DEF LayoutInv, Tried, create_null

(* What is returned to kmem_init has the size that was asked for.          *)
LEMMA ReturnStep == ASSUME LayoutInv, return PROVE LayoutInv'
<1>1. /\ pc' = "idle" /\ size' = 0 /\ index' = 0 /\ object_size' = 0
      /\ slab_order' = 0 /\ objs_per_slab' = 0 /\ obj_offset' = 0 /\ MAX_SLAB_ORDER \in Nat
  BY LayoutAssumption DEF return
<1>2. /\ Rounded' /\ Tried' /\ LayoutFits' /\ KmallocFits'
  BY <1>1 DEF Rounded, Tried, LayoutFits, KmallocFits
<1>3. CASE caches_made
  <2>1. kmalloc_caches' = kmalloc_caches
    BY <1>3 DEF return
  <2> QED BY <1>1, <1>2, <1>3, <2>1 DEF LayoutInv, LayoutTypeOK, CachesExact, caches_made
<1>4. CASE ~caches_made
  <2> DEFINE L == Len(kmalloc_caches)
  <2>1. /\ kmalloc_caches \in Seq(Nat) /\ L \in Nat /\ L < KMALLOC_NUM_CACHES /\ object_size \in Nat
    BY Zenon, <1>4, CachesLeft DEF LayoutInv, LayoutTypeOK
  <2>2. pc = "created" /\ object_size = kmalloc_caches_sizes[L + 1]
    BY <1>4 DEF LayoutInv, CachesExact, return, next_cache
  <2>3. kmalloc_caches' = Append(kmalloc_caches, object_size)
    BY <1>4, <2>2 DEF return
  <2>4. /\ kmalloc_caches' \in Seq(Nat) /\ Len(kmalloc_caches') = L + 1
        /\ kmalloc_caches'[L + 1] = object_size
        /\ \A j \in 1 .. L : kmalloc_caches'[j] = kmalloc_caches[j]
    BY <2>1, <2>3
  <2>5. \A j \in 1 .. L : kmalloc_caches[j] = kmalloc_caches_sizes[j]
    BY DEF LayoutInv, CachesExact
  <2> HIDE DEF L
  <2>6. \A j \in 1 .. Len(kmalloc_caches') : kmalloc_caches'[j] = kmalloc_caches_sizes[j]
    BY <2>1, <2>2, <2>4, <2>5
  <2>7. CachesExact'
    BY <1>1, <2>6 DEF CachesExact
  <2>8. LayoutTypeOK'
    BY <1>1, <2>1, <2>4 DEF LayoutTypeOK, KMALLOC_NUM_CACHES
  <2> QED BY <1>2, <2>7, <2>8 DEF LayoutInv
<1> QED BY <1>3, <1>4

LEMMA LayoutInvNext ==
  ASSUME LayoutInv, [LayoutNext]_layoutVars
  PROVE  LayoutInv'
<1> USE DEF LayoutInv
<1>0. WORD \in Nat \ {0} /\ MAX_SLAB_ORDER \in Nat
  BY LayoutAssumption
<1>1. ASSUME ~caches_made, kmem_cache_create(kmalloc_caches_sizes[next_cache]) PROVE LayoutInv'
  <2> DEFINE sz == kmalloc_caches_sizes[next_cache]
  <2>1. next_cache \in 1 .. KMALLOC_NUM_CACHES
    BY Zenon, <1>1, CachesLeft
  <2>2. sz \in Nat /\ sz >= WORD /\ sz % WORD = 0
    BY <2>1, Tables, KmallocSizeAssumption
  <2> HIDE DEF sz
  <2>3. rounded(sz) = sz
    BY <1>0, <2>2 DEF rounded, ALIGN_UP
  <2>4. kmem_cache_create(sz) /\ sz = kmalloc_caches_sizes[next_cache]
    BY <1>1 DEF sz
  <2> QED BY Zenon, <2>2, <2>3, <2>4, CreateStep
<1>2. ASSUME NEW sz \in Sizes, caches_made, kmem_cache_create(sz) PROVE LayoutInv'
  BY <1>2, LayoutAssumption, CreateStep
<1>3. CASE loop_next
  <2>1. /\ pc = "loop" /\ slab_order' = slab_order + 1 /\ ~enough(slab_order, object_size)
        /\ slab_order <= MAX_SLAB_ORDER
        /\ UNCHANGED <<pc, size, object_size, objs_per_slab, obj_offset, kmalloc_caches, index>>
    BY <1>3 DEF loop_next
  <2>2. LayoutTypeOK' /\ Rounded' /\ LayoutFits' /\ KmallocFits'
    BY <1>0, <2>1 DEF LayoutTypeOK, Rounded, LayoutFits, KmallocFits
  <2>3. CachesExact'
    BY <2>1 DEF CachesExact, caches_made, next_cache
  <2>4. \A o \in SlabOrders : o < slab_order + 1 => o < slab_order \/ o = slab_order
    BY <1>0 DEF LayoutTypeOK, SlabOrders
  <2>5. \A o \in SlabOrders : o < slab_order' => ~enough(o, object_size)
    BY Zenon, <2>1, <2>4 DEF Tried
  <2>6. object_size' = object_size /\ \A o : enough(o, object_size)' <=> enough(o, object_size)
    BY Zenon, <2>1 DEF enough, count0, count, usable, min_objs, header, slab_bytes
  <2>7. Tried'
    BY Zenon, <2>5, <2>6 DEF Tried
  <2> QED BY <2>2, <2>3, <2>7
<1>4. CASE loop_found
  <2>1. /\ objs_per_slab' \in Nat /\ obj_offset' \in Nat
        /\ obj_offset' >= HEADER + objs_per_slab' * LINK /\ obj_offset' % WORD = 0
        /\ obj_offset' + objs_per_slab' * object_size <= slab_bytes(slab_order)
        /\ objs_per_slab' >= min_objs(object_size) /\ objs_per_slab' <= NOFREE
    BY <1>4, FoundFits
  <2>2. /\ UNCHANGED <<size, object_size, slab_order, kmalloc_caches, index>>
        /\ pc = "loop" /\ pc' = "created"
    BY <1>4 DEF loop_found
  <2>3. LayoutTypeOK' /\ Rounded' /\ KmallocFits' /\ Tried'
    BY <2>1, <2>2 DEF LayoutTypeOK, Rounded, KmallocFits, Tried
  <2>4. LayoutFits'
    BY <2>1, <2>2, <2>3 DEF LayoutFits, Rounded, min_objs, slab_bytes
  <2>5. CachesExact'
    BY <2>2 DEF CachesExact, caches_made, next_cache
  <2> QED BY <2>3, <2>4, <2>5
<1>5. CASE create_null
  <2>1. caches_made /\ pc' = "null" /\ UNCHANGED <<size, layout, kmalloc_caches, index>>
    BY <1>5, NoNullInInit DEF create_null
  <2> QED BY <1>0, <2>1 DEF layout, LayoutTypeOK, Rounded, Tried, CachesExact, LayoutFits,
             KmallocFits, caches_made
<1>6. CASE UNCHANGED layoutVars
  <2>1. UNCHANGED <<pc, size, object_size, slab_order, objs_per_slab, obj_offset, kmalloc_caches, index>>
    BY <1>6 DEF layoutVars, layout
  <2>2. LayoutTypeOK' /\ Rounded' /\ LayoutFits' /\ KmallocFits' /\ CachesExact'
    BY <2>1 DEF LayoutTypeOK, Rounded, LayoutFits, KmallocFits, CachesExact, min_objs, slab_bytes,
       caches_made, next_cache
  <2>3. Tried'
    BY Zenon, <2>1 DEF Tried, enough, count0, count, usable, min_objs, header, slab_bytes
  <2> QED BY <2>2, <2>3
<1> QED BY Zenon, <1>1, <1>2, <1>3, <1>4, <1>5, <1>6, KmallocChoice, KmallocRefusal, ReturnStep
        DEF LayoutNext

LEMMA LayoutInvInit == LayoutInit => LayoutInv
<1>1. MAX_SLAB_ORDER \in Nat
  BY LayoutAssumption
<1>2. ASSUME LayoutInit PROVE LayoutTypeOK /\ Rounded /\ Tried /\ LayoutFits /\ KmallocFits
  BY <1>1, <1>2 DEF LayoutInit, LayoutTypeOK, Rounded, Tried, LayoutFits, KmallocFits, KMALLOC_NUM_CACHES
<1>3. ASSUME LayoutInit PROVE CachesExact
  BY <1>3 DEF LayoutInit, CachesExact
<1> QED BY <1>2, <1>3 DEF LayoutInv

(* For every object size: the objects kmem_cache_create fits into a slab   *)
(* lie behind the header and its links and inside the slab's pages, and    *)
(* their indices fit a uint16.                                             *)
THEOREM LayoutSound == LayoutSpec => []LayoutFits
<1>1. LayoutInv /\ [LayoutNext]_layoutVars => LayoutInv'
  BY LayoutInvNext
<1>2. LayoutInv => LayoutFits
  BY DEF LayoutInv
<1> QED BY <1>1, <1>2, LayoutInvInit, PTL DEF LayoutSpec

(* For every size: kmalloc uses the cache with the smallest objects that   *)
(* hold it, of those that kmem_init made, and refuses it only if none do.  *)
THEOREM KmallocSound == LayoutSpec => []KmallocFits
<1>1. LayoutInv /\ [LayoutNext]_layoutVars => LayoutInv'
  BY LayoutInvNext
<1>2. LayoutInv => KmallocFits
  BY DEF LayoutInv
<1> QED BY <1>1, <1>2, LayoutInvInit, PTL DEF LayoutSpec

-----------------------------------------------------------------------------
(* Where kmem_init has got to: what each part of the region looks like.    *)
Placed ==
  stage \in {"carve", "manage", "ready"} =>
    /\ req \in Requests
    /\ boot = req.space + tables(req.block_num)
    /\ boot \in Nat /\ alloc_lo \in Nat
    /\ boot <= alloc_lo /\ alloc_lo < boot + PGSIZE /\ alloc_lo % PGSIZE = 0

Carved ==
  /\ stage = "carve" => req.kernel /\ alloc_hi = region_end
  /\ stage \in {"manage", "ready"} /\ ~req.kernel => alloc_hi = region_end
  /\ stage \in {"manage", "ready"} /\ req.kernel =>
       /\ kheapwin_base0 \in Int /\ kheapwin_total \in Int
       /\ alloc_hi = kheapwin_base0
       /\ kheapwin_base0 + kheapwin_total <= region_end
       /\ kheapwin_total >= 0
       /\ alloc_lo + MIN_KERNEL_HEAP_BYTES <= kheapwin_base0

Counted == stage = "ready" => managed_num_blocks = (alloc_hi - alloc_lo) \div PGSIZE

DivisionInv == Placed /\ Carved /\ Counted

(* Rounding a sum of an aligned address up to a page, or down to one.      *)
LEMMA RoundDown ==
  ASSUME NEW a \in Int, NEW w \in Nat \ {0}, NEW m \in Int, m % w = 0, m <= a
  PROVE  a - (a % w) >= m /\ a - (a % w) <= a
<1>1. a = w * (a \div w) + (a % w) /\ a % w \in 0 .. w-1 /\ a \div w \in Int
  OBVIOUS
<1>2. m = w * (m \div w) /\ m \div w \in Int
  OBVIOUS
<1>3. m \div w <= a \div w
  OBVIOUS
<1>4. w * (m \div w) <= w * (a \div w)
  BY <1>1, <1>2, <1>3
<1> QED BY <1>1, <1>2, <1>4

LEMMA RoundUp ==
  ASSUME NEW a \in Nat, NEW w \in Nat \ {0}
  PROVE  LET r == IF a % w = 0 THEN a ELSE a + (w - (a % w))
         IN r \in Nat /\ a <= r /\ r < a + w /\ r % w = 0
<1>1. a = w * (a \div w) + (a % w) /\ a % w \in 0 .. w-1 /\ a \div w \in Nat
  OBVIOUS
<1>2. CASE a % w = 0
  BY <1>2
<1>3. CASE a % w # 0
  <2>1. a + (w - (a % w)) = w * ((a \div w) + 1)
    BY <1>1
  <2>2. (w * ((a \div w) + 1)) % w = 0
    OBVIOUS
  <2> QED BY <1>1, <1>3, <2>1, <2>2
<1> QED BY <1>2, <1>3

LEMMA ModAdd ==
  ASSUME NEW a \in Int, NEW b \in Int, NEW w \in Nat \ {0}, a % w = 0, b % w = 0
  PROVE  (a + b) % w = 0
<1>1. a = w * (a \div w) /\ b = w * (b \div w) /\ a \div w \in Int /\ b \div w \in Int
  OBVIOUS
<1>2. a + b = w * ((a \div w) + (b \div w))
  BY <1>1
<1>3. (w * ((a \div w) + (b \div w))) % w = 0
  OBVIOUS
<1> QED BY <1>2, <1>3

LEMMA RequestFacts ==
  ASSUME NEW r \in Requests
  PROVE  /\ r.space \in Nat /\ r.block_num \in Nat /\ r.kernel \in BOOLEAN
         /\ tables(r.block_num) \in Nat \ {0} /\ r.block_num * PGSIZE \in Nat
         /\ PGSIZE \in Nat \ {0} /\ KHEAPWIN_SIZE \in Nat \ {0} /\ MIN_KERNEL_HEAP_BYTES \in Nat
<1>1. /\ r.space \in Nat /\ r.block_num \in Nat /\ r.kernel \in BOOLEAN
      /\ PGSIZE \in Nat \ {0} /\ KHEAPWIN_SIZE \in Nat \ {0} /\ MIN_KERNEL_HEAP_BYTES \in Nat
      /\ FREE_AREA \in Nat \ {0} /\ CACHE_POOL \in Nat /\ BLOCK_META \in Nat
  BY InitAssumption
<1>2. r.block_num * BLOCK_META \in Nat /\ r.block_num * PGSIZE \in Nat
  BY <1>1
<1>3. tables(r.block_num) \in Nat \ {0}
  BY <1>1, <1>2 DEF tables
<1> QED BY <1>1, <1>2, <1>3

-----------------------------------------------------------------------------
LEMMA PlaceStep ==
  ASSUME NEW r \in Requests, kmem_init(r)
  PROVE  DivisionInv'
<1>1. /\ r.space \in Nat /\ tables(r.block_num) \in Nat \ {0} /\ PGSIZE \in Nat \ {0}
      /\ r.kernel \in BOOLEAN
  BY RequestFacts
<1>2. r.space + tables(r.block_num) \in Nat
  BY <1>1
<1>3. /\ req' = r /\ boot' = r.space + tables(r.block_num)
      /\ alloc_lo' = IF boot' % PGSIZE = 0 THEN boot' ELSE boot' + (PGSIZE - (boot' % PGSIZE))
      /\ alloc_hi' = r.space + r.block_num * PGSIZE
      /\ stage' = IF r.kernel THEN "carve" ELSE "manage"
  BY DEF kmem_init
<1>4. boot' \in Nat
  BY <1>2, <1>3
<1>5. alloc_lo' \in Nat /\ boot' <= alloc_lo' /\ alloc_lo' < boot' + PGSIZE /\ alloc_lo' % PGSIZE = 0
  BY <1>1, <1>3, <1>4, RoundUp
<1>6. Placed'
  BY <1>3, <1>4, <1>5 DEF Placed, tables
<1>7. Carved' /\ Counted'
  BY <1>1, <1>3 DEF Carved, Counted, region_end
<1> QED BY <1>6, <1>7 DEF DivisionInv

LEMMA CarveStep ==
  ASSUME DivisionInv, carve_windows
  PROVE  DivisionInv'
<1>1. /\ req \in Requests /\ alloc_lo \in Nat /\ alloc_lo % PGSIZE = 0
      /\ req.kernel /\ alloc_hi = region_end
  BY DEF DivisionInv, Placed, Carved, carve_windows
<1>2. /\ PGSIZE \in Nat \ {0} /\ KHEAPWIN_SIZE \in Nat \ {0} /\ MIN_KERNEL_HEAP_BYTES \in Nat
      /\ req.space \in Nat /\ req.block_num * PGSIZE \in Nat
  BY <1>1, RequestFacts
<1> DEFINE m == alloc_lo + MIN_KERNEL_HEAP_BYTES
           x == (alloc_hi - alloc_lo) - MIN_KERNEL_HEAP_BYTES
           k == nwin
           b == alloc_hi - k * KHEAPWIN_SIZE
<1>3. alloc_hi \in Nat
  BY <1>1, <1>2 DEF region_end
<1>4. x \in Nat /\ x > 0 /\ k = x \div KHEAPWIN_SIZE
  BY <1>1, <1>2, <1>3 DEF carve_windows, carve_fails, avail, nwin
<1>5. k \in Nat /\ k * KHEAPWIN_SIZE <= x /\ k * KHEAPWIN_SIZE \in Nat
  <2> HIDE DEF x, k
  <2> QED BY <1>2, <1>4
<1>6. b \in Int /\ m \in Int /\ m <= b /\ b + k * KHEAPWIN_SIZE = alloc_hi
  BY <1>1, <1>2, <1>3, <1>5
<1>7. m % PGSIZE = 0
  <2>1. MIN_KERNEL_HEAP_BYTES % PGSIZE = 0
    BY InitAssumption
  <2>2. alloc_lo \in Int /\ MIN_KERNEL_HEAP_BYTES \in Int
    BY <1>1, <1>2
  <2> QED BY <1>1, <1>2, <2>1, <2>2, ModAdd
<1>8. b - (b % PGSIZE) >= m /\ b - (b % PGSIZE) <= b /\ b - (b % PGSIZE) \in Int
  <2>1. b % PGSIZE \in Int
    BY <1>2, <1>6
  <2> QED BY <1>2, <1>6, <1>7, <2>1, RoundDown
<1>9. windows_base = b - (b % PGSIZE)
  BY DEF windows_base
<1>10. /\ kheapwin_total' = k * KHEAPWIN_SIZE /\ kheapwin_base0' = windows_base
       /\ alloc_hi' = windows_base /\ stage' = "manage" /\ stage = "carve"
       /\ UNCHANGED <<req, boot, alloc_lo>>
  BY DEF carve_windows
<1>11. Placed'
  BY <1>10 DEF DivisionInv, Placed, tables
<1>12. region_end' = alloc_hi
  BY <1>1, <1>10 DEF region_end
<1>13. kheapwin_base0' + kheapwin_total' <= region_end'
  BY <1>3, <1>5, <1>6, <1>8, <1>9, <1>10, <1>12
<1>14. Carved'
  BY <1>1, <1>5, <1>8, <1>9, <1>10, <1>13 DEF Carved
<1> QED BY <1>10, <1>11, <1>14 DEF DivisionInv, Counted

LEMMA DivisionInvNext ==
  ASSUME DivisionInv, [RegionNext]_regionVars
  PROVE  DivisionInv'
<1>1. ASSUME NEW r \in Requests, kmem_init(r) PROVE DivisionInv'
  BY <1>1, PlaceStep
<1>2. CASE carve_windows
  BY <1>2, CarveStep
<1>3. CASE carve_panic
  BY <1>3 DEF carve_panic, DivisionInv, Placed, Carved, Counted, region_end
<1>4. CASE manage
  BY <1>4 DEF manage, DivisionInv, Placed, Carved, Counted, region_end, tables
<1>5. CASE UNCHANGED regionVars
  BY <1>5 DEF regionVars, DivisionInv, Placed, Carved, Counted, region_end, tables
<1> QED BY <1>1, <1>2, <1>3, <1>4, <1>5 DEF RegionNext

LEMMA DivisionInvInit == RegionInit => DivisionInv
BY DEF RegionInit, DivisionInv, Placed, Carved, Counted

LEMMA DivisionInOrder ==
  ASSUME DivisionInv
  PROVE  RegionsInOrder /\ KernelHeapKept
<1> SUFFICES ASSUME stage = "ready", req.kernel \/ ArenaLargeEnough
             PROVE  /\ stage = "ready" /\ ArenaLargeEnough => RegionsInOrder
                    /\ req.kernel => KernelHeapKept
  BY DEF RegionsInOrder, KernelHeapKept
<1> DEFINE T == tables(req.block_num)
           S == req.block_num * PGSIZE
           d == alloc_hi - alloc_lo
           n == managed_num_blocks
<1>1. /\ req \in Requests /\ boot = req.space + T /\ boot \in Nat /\ alloc_lo \in Nat
      /\ boot <= alloc_lo /\ alloc_lo < boot + PGSIZE /\ alloc_lo % PGSIZE = 0
  BY DEF DivisionInv, Placed
<1>2. /\ req.space \in Nat /\ req.block_num \in Nat /\ T \in Nat \ {0} /\ S \in Nat
      /\ PGSIZE \in Nat \ {0} /\ MIN_KERNEL_HEAP_BYTES \in Nat /\ req.kernel \in BOOLEAN
  BY <1>1, RequestFacts
<1>3. region_end = req.space + S
  BY DEF region_end
<1>4. d \in Nat /\ alloc_hi \in Int /\ alloc_hi <= region_end
  <2>1. CASE req.kernel
    <3>1. /\ alloc_hi \in Int /\ kheapwin_base0 = alloc_hi /\ kheapwin_total \in Int
          /\ kheapwin_total >= 0 /\ kheapwin_base0 + kheapwin_total <= region_end
          /\ alloc_lo + MIN_KERNEL_HEAP_BYTES <= alloc_hi
      BY <2>1 DEF DivisionInv, Carved
    <3> QED BY <1>1, <1>2, <1>3, <3>1
  <2>2. CASE ~req.kernel
    <3>1. alloc_hi = region_end
      BY <2>2 DEF DivisionInv, Carved
    <3>2. T + PGSIZE <= S
      BY <2>2 DEF ArenaLargeEnough
    <3> QED BY <1>1, <1>2, <1>3, <3>1, <3>2
  <2> QED BY <2>1, <2>2
<1>5. n = d \div PGSIZE
  BY DEF DivisionInv, Counted
<1>6. n \in Nat /\ n * PGSIZE <= d /\ n * PGSIZE \in Nat
  <2> HIDE DEF d
  <2> QED BY <1>2, <1>4, <1>5
<1>7. alloc_lo + n * PGSIZE <= alloc_hi
  BY <1>1, <1>4, <1>6
<1>8. n <= req.block_num
  <2>1. n * PGSIZE <= req.block_num * PGSIZE
    BY <1>1, <1>2, <1>3, <1>4, <1>6
  <2> QED BY <1>2, <1>6, <2>1
<1>9. req.kernel => /\ alloc_lo + n * PGSIZE <= kheapwin_base0
                    /\ kheapwin_base0 + kheapwin_total <= region_end
  BY <1>7 DEF DivisionInv, Carved
<1>10. RegionsInOrder
  <2>1. req.space < boot
    BY <1>1, <1>2
  <2>2. alloc_lo + n * PGSIZE <= region_end
    BY <1>1, <1>2, <1>3, <1>4, <1>6, <1>7
  <2> QED BY <1>1, <1>2, <1>6, <1>8, <1>9, <2>1, <2>2 DEF RegionsInOrder
<1>11. ASSUME req.kernel PROVE KernelHeapKept
  <2>1. MIN_KERNEL_HEAP_BYTES <= d
    BY <1>1, <1>2, <1>4, <1>11 DEF DivisionInv, Carved
  <2>2. MIN_KERNEL_HEAP_BYTES % PGSIZE = 0
    BY InitAssumption
  <2>3. MIN_KERNEL_HEAP_BYTES \div PGSIZE <= d \div PGSIZE
    <3> HIDE DEF d
    <3> QED BY <1>2, <1>4, <2>1
  <2>4. (MIN_KERNEL_HEAP_BYTES \div PGSIZE) * PGSIZE = MIN_KERNEL_HEAP_BYTES
    BY <1>2, <2>2
  <2>5. (MIN_KERNEL_HEAP_BYTES \div PGSIZE) * PGSIZE <= n * PGSIZE
    <3>1. MIN_KERNEL_HEAP_BYTES \div PGSIZE \in Nat /\ MIN_KERNEL_HEAP_BYTES \div PGSIZE <= n
      BY <1>2, <1>5, <2>3
    <3> QED BY <1>2, <1>6, <3>1
  <2> QED BY <1>2, <1>6, <2>4, <2>5 DEF KernelHeapKept
<1> QED BY <1>10, <1>11

(* Tables, managed pages and windows of every region kmem_init sets up     *)
(* follow one another inside it.                                           *)
THEOREM DivisionSound == RegionSpec => []RegionsInOrder
<1>1. DivisionInv /\ [RegionNext]_regionVars => DivisionInv'
  BY DivisionInvNext
<1>2. DivisionInv => RegionsInOrder
  BY DivisionInOrder
<1> QED BY <1>1, <1>2, DivisionInvInit, PTL DEF RegionSpec

(* The windows carved out of the kernel's region leave the minimum heap.   *)
THEOREM HeapSound == RegionSpec => []KernelHeapKept
<1>1. DivisionInv /\ [RegionNext]_regionVars => DivisionInv'
  BY DivisionInvNext
<1>2. DivisionInv => KernelHeapKept
  BY DivisionInOrder
<1> QED BY <1>1, <1>2, DivisionInvInit, PTL DEF RegionSpec

-----------------------------------------------------------------------------
(* The invariant of sys_pause: while a pause is under way, ticks is the    *)
(* time of the call plus the interrupts since, modulo the width; and from  *)
(* the test of the loop to the moment the process is asleep it holds       *)
(* tickslock, which clockintr needs.                                       *)

LEMMA ModSmall == ASSUME NEW u \in Nat \ {0}, NEW x \in 0 .. u - 1 PROVE x % u = x
  OBVIOUS

LEMMA ModLarge == ASSUME NEW u \in Nat \ {0}, NEW x \in u .. 2 * u - 1 PROVE x % u = x - u
  OBVIOUS

Pausing == {"loop", "sleep", "asleep", "woken"}

PauseRecord ==
  [at : {"user", "back"} \cup Pausing, n : Nat, ticks0 : 0 .. UINTT - 1,
   passed : 0 .. UINTT - 1]

ClockInv ==
  /\ ClockTypeOK
  /\ \A p \in ClockProc :
       /\ pause_at(p) \in Pausing => ticks = (pause_op[p].ticks0 + pause_op[p].passed) % UINTT
       /\ pause_at(p) \in {"loop", "sleep"} => tickslock_holder = p
       /\ pause_at(p) \in {"sleep", "asleep"} => pause_op[p].passed < pause_op[p].n
       /\ pause_at(p) = "back" => pause_op[p].passed >= pause_op[p].n

LEMMA ModRange == ASSUME NEW u \in Nat \ {0}, NEW x \in Nat PROVE x % u \in 0 .. u - 1
  OBVIOUS

LEMMA Elapsed ==
  ASSUME NEW u \in Nat \ {0}, NEW t \in 0 .. u - 1, NEW d \in 0 .. u - 1
  PROVE  (((t + d) % u) - t + u) % u = d
<1>1. CASE t + d < u
  <2>1. t + d \in 0 .. u - 1 /\ d + u \in u .. 2 * u - 1 /\ t + d - t + u = d + u
    BY <1>1
  <2>2. (t + d) % u = t + d
    BY <2>1, ModSmall
  <2>3. (d + u) % u = d + u - u
    BY <2>1, ModLarge
  <2>4. d + u - u = d
    OBVIOUS
  <2> QED BY <2>1, <2>2, <2>3, <2>4
<1>2. CASE t + d >= u
  <2>1. t + d \in u .. 2 * u - 1 /\ t + d - u - t + u = d
    BY <1>2
  <2>2. (t + d) % u = t + d - u
    BY <2>1, ModLarge
  <2>3. d % u = d
    BY ModSmall
  <2> QED BY <2>1, <2>2, <2>3
<1> QED BY <1>1, <1>2

(* The unsigned difference is the number of interrupts, so the loop of     *)
(* sys_pause ends when n of them have come, and not because ticks wrapped. *)
LEMMA TooEarly ==
  ASSUME ClockInv, NEW p \in ClockProc, pause_at(p) \in Pausing
  PROVE  too_early(p) <=> pause_op[p].passed < pause_op[p].n
<1>1. /\ UINTT \in Nat \ {0}
      /\ pause_op[p].ticks0 \in 0 .. UINTT - 1 /\ pause_op[p].passed \in 0 .. UINTT - 1
  BY ClockAssumption DEF ClockInv, ClockTypeOK
<1>2. ticks = (pause_op[p].ticks0 + pause_op[p].passed) % UINTT
  BY DEF ClockInv
<1>3. (ticks - pause_op[p].ticks0 + UINTT) % UINTT = pause_op[p].passed
  BY <1>1, <1>2, Elapsed
<1> QED BY <1>3 DEF too_early

LEMMA ClockInitInv == ClockInit => ClockInv
<1> SUFFICES ASSUME ClockInit PROVE ClockInv
  OBVIOUS
<1>1. ClockTypeOK
  BY ClockAssumption DEF ClockInit, ClockTypeOK, pause_idle
<1> QED BY <1>1 DEF ClockInit, ClockInv, pause_at, pause_idle, Pausing

(* One more interrupt, in the sum and in ticks.                            *)
LEMMA TickSum ==
  ASSUME NEW u \in Nat \ {0}, NEW t \in 0 .. u - 1, NEW d \in 0 .. u - 2
  PROVE  (((t + d) % u) + 1) % u = (t + (d + 1)) % u
<1>1. CASE t + d < u
  <2>1. t + d \in 0 .. u - 1
    BY <1>1
  <2>2. (t + d) % u = t + d
    BY <2>1, ModSmall
  <2> QED BY <2>2
<1>2. CASE t + d >= u
  <2>1. t + d \in u .. 2 * u - 1 /\ t + d + 1 \in u .. 2 * u - 1 /\ t + d - u + 1 \in 0 .. u - 1
    BY <1>2
  <2>2. (t + d) % u = t + d - u
    BY <2>1, ModLarge
  <2>3. (t + d + 1) % u = t + d + 1 - u
    BY <2>1, ModLarge
  <2>4. (t + d - u + 1) % u = t + d - u + 1
    BY <2>1, ModSmall
  <2>5. t + (d + 1) = t + d + 1 /\ t + d - u + 1 = t + d + 1 - u
    OBVIOUS
  <2> QED BY <2>2, <2>3, <2>4, <2>5
<1> QED BY <1>1, <1>2

LEMMA ClockNextInv == ClockInv /\ [ClockNext]_clockVars => ClockInv'
<1> SUFFICES ASSUME ClockInv, [ClockNext]_clockVars PROVE ClockInv'
  OBVIOUS
<1> USE DEF pause_at, Pausing
<1>1. UINTT \in Nat \ {0} /\ Pauses \subseteq Int /\ 0 \in 0 .. UINTT - 1 /\ 0 \in Nat
      /\ NoPauser \notin ClockProc
  BY ClockAssumption
<1>t. /\ ticks \in 0 .. UINTT - 1 /\ ticks \in Nat /\ tickslock_holder \in ClockProc \cup {NoPauser}
      /\ pause_op \in [ClockProc -> PauseRecord] /\ clock_killed \subseteq ClockVictims
  BY <1>1 DEF ClockInv, ClockTypeOK, PauseRecord
<1>2. ASSUME NEW p \in ClockProc, NEW n \in Pauses, sys_pause(p, n) PROVE ClockInv'
  <2> DEFINE m == IF n < 0 THEN 0 ELSE n
             r == [at |-> "loop", n |-> m, ticks0 |-> ticks, passed |-> 0]
  <2>1. m \in Nat /\ ticks % UINTT = ticks /\ ticks + 0 = ticks
    BY <1>1, <1>t, ModSmall
  <2>2. pause_op' = [pause_op EXCEPT ![p] = r]
    BY <1>2 DEF sys_pause, pause_idle
  <2> HIDE DEF m
  <2>3. r \in PauseRecord
    BY <1>1, <1>t, <2>1, Zenon DEF PauseRecord
  <2>4. pause_op' \in [ClockProc -> PauseRecord]
    BY <1>t, <2>2, <2>3, Zenon
  <2>5. ClockTypeOK'
    BY <1>2, <1>t, <2>4 DEF ClockTypeOK, PauseRecord, sys_pause
  <2> QED BY <1>1, <1>2, <1>t, <2>1, <2>2, <2>5 DEF ClockInv, sys_pause
<1>3. ASSUME NEW p \in ClockProc, pause_done(p) PROVE ClockInv'
  <2>1. pause_op[p].passed >= pause_op[p].n
    BY <1>3, TooEarly DEF pause_done, ClockInv, ClockTypeOK
  <2> QED BY <1>3, <2>1 DEF ClockInv, ClockTypeOK, pause_done, pause_goto
<1>4. ASSUME NEW p \in ClockProc, pause_killed(p) PROVE ClockInv'
  <2> DEFINE r == [at |-> "user", n |-> 0, ticks0 |-> 0, passed |-> 0]
  <2>1. pause_op' = [pause_op EXCEPT ![p] = r]
    BY <1>4 DEF pause_killed, pause_idle
  <2>2. r \in PauseRecord
    BY <1>1, Zenon DEF PauseRecord
  <2>3. pause_op' \in [ClockProc -> PauseRecord]
    BY <1>t, <2>1, <2>2, Zenon
  <2>4. ClockTypeOK'
    BY <1>4, <1>t, <2>3 DEF ClockTypeOK, PauseRecord, pause_killed
  <2> QED BY <1>4, <1>t, <2>1, <2>4 DEF ClockInv, pause_killed
<1>5. ASSUME NEW p \in ClockProc, pause_wait(p) PROVE ClockInv'
  <2>1. pause_op[p].passed < pause_op[p].n
    BY <1>5, TooEarly DEF pause_wait
  <2> QED BY <1>5, <2>1 DEF ClockInv, ClockTypeOK, pause_wait, pause_goto
<1>6. ASSUME NEW p \in ClockProc, pause_sleep(p) PROVE ClockInv'
  BY <1>6 DEF ClockInv, ClockTypeOK, pause_sleep, pause_goto
<1>7. ASSUME NEW p \in ClockProc, pause_woken(p) PROVE ClockInv'
  BY <1>1, <1>7 DEF ClockInv, ClockTypeOK, pause_woken, pause_goto
<1>8. ASSUME NEW p \in ClockProc, pause_return(p) PROVE ClockInv'
  BY <1>1, <1>8 DEF ClockInv, ClockTypeOK, pause_return, pause_idle
<1>9. ASSUME NEW p \in ClockProc, pause_kkill(p) PROVE ClockInv'
  <2> DEFINE at1 == IF pause_op[p].at = "asleep" THEN "woken" ELSE pause_op[p].at
             r   == [pause_op[p] EXCEPT !.at = at1]
  <2>1. pause_op' = [pause_op EXCEPT ![p] = r]
    BY <1>9, <1>t DEF pause_kkill
  <2>2. at1 \in {"user", "back"} \cup Pausing
    BY <1>t DEF PauseRecord
  <2>3. r \in PauseRecord
    BY <1>t, <2>2, Zenon DEF PauseRecord
  <2>4. pause_op' \in [ClockProc -> PauseRecord]
    BY <1>t, <2>1, <2>3, Zenon
  <2>5. ClockTypeOK'
    BY <1>9, <1>t, <2>4 DEF ClockTypeOK, PauseRecord, pause_kkill
  <2> QED BY <1>9, <1>t, <2>1, <2>5 DEF ClockInv, pause_kkill
<1>10. CASE tick
  <2> DEFINE at1(q) == IF pause_op[q].at = "asleep" THEN "woken" ELSE pause_op[q].at
             d1(q)  == IF pause_op[q].at \in {"user", "back"} THEN pause_op[q].passed
                                                              ELSE pause_op[q].passed + 1
  <2>1. ticks' \in 0 .. UINTT - 1
    <3>1. ticks + 1 \in Nat
      BY <1>t
    <3>2. ticks' = (ticks + 1) % UINTT
      BY <1>10 DEF tick
    <3> QED BY <1>1, <3>1, <3>2, ModRange
  <2>2. ASSUME NEW q \in ClockProc
        PROVE  /\ at1(q) \in {"user", "back"} \cup Pausing /\ d1(q) \in 0 .. UINTT - 1
               /\ pause_op'[q] = [pause_op[q] EXCEPT !.at = at1(q), !.passed = d1(q)]
               /\ pause_op'[q] \in PauseRecord
    <3>1. pause_op[q] \in PauseRecord /\ pause_op[q].passed < UINTT - 1
      BY <1>t, <1>10 DEF tick
    <3>2. at1(q) \in {"user", "back"} \cup Pausing /\ d1(q) \in 0 .. UINTT - 1
      BY <1>1, <3>1 DEF PauseRecord
    <3>3. pause_op'[q] = [pause_op[q] EXCEPT !.at = at1(q), !.passed = d1(q)]
      BY <1>10 DEF tick
    <3> HIDE DEF at1, d1
    <3>4. pause_op'[q] \in PauseRecord
      BY <3>1, <3>2, <3>3 DEF PauseRecord
    <3> QED BY <3>2, <3>3, <3>4
  <2>3. ClockTypeOK'
    <3>1. pause_op' \in [ClockProc -> PauseRecord]
      BY <1>10, <2>2 DEF tick
    <3> QED BY <1>10, <1>t, <2>1, <3>1 DEF ClockTypeOK, PauseRecord, tick
  <2>4. ASSUME NEW p \in ClockProc, pause_at(p) \in Pausing
        PROVE  ticks' = (pause_op[p].ticks0 + (pause_op[p].passed + 1)) % UINTT
    <3>1. pause_op[p].ticks0 \in 0 .. UINTT - 1 /\ pause_op[p].passed \in 0 .. UINTT - 2
      <4>1. pause_op[p] \in PauseRecord /\ pause_op[p].passed < UINTT - 1
        BY <1>t, <1>10 DEF tick
      <4> QED BY <1>1, <4>1 DEF PauseRecord
    <3>2. ticks = (pause_op[p].ticks0 + pause_op[p].passed) % UINTT
      BY <2>4 DEF ClockInv
    <3>3. ticks' = (((pause_op[p].ticks0 + pause_op[p].passed) % UINTT) + 1) % UINTT
      BY <1>10, <3>2 DEF tick
    <3> QED BY <1>1, <3>1, <3>3, TickSum
  <2>5. tickslock_holder = NoPauser /\ NoPauser \notin ClockProc /\ tickslock_holder' = tickslock_holder
    BY <1>10, ClockAssumption DEF tick
  <2>6. ASSUME NEW p \in ClockProc
        PROVE  /\ pause_op'[p].at = at1(p) /\ pause_op'[p].passed = d1(p)
               /\ pause_op'[p].n = pause_op[p].n /\ pause_op'[p].ticks0 = pause_op[p].ticks0
               /\ pause_op[p].at \in {"user", "back", "asleep", "woken"}
    <3>1. pause_op[p] \in PauseRecord
      BY <1>t
    <3>2. pause_op[p].at \notin {"loop", "sleep"}
      BY <2>5 DEF ClockInv
    <3> QED BY <2>2, <3>1, <3>2 DEF PauseRecord
  <2> QED BY <2>3, <2>4, <2>6 DEF ClockInv
<1>11. CASE UNCHANGED clockVars
  BY <1>11 DEF ClockInv, ClockTypeOK, clockVars
<1> QED BY <1>2, <1>3, <1>4, <1>5, <1>6, <1>7, <1>8, <1>9, <1>10, <1>11 DEF ClockNext

(* A pause of n ends after n interrupts or more and never sleeps through   *)
(* the last of them, whatever the width of ticks, the number of processes  *)
(* and the order in which clockintr and the calls get tickslock.           *)
THEOREM ClockPausesExact == ClockSpec => []PausesExact
<1>1. ClockInv => PausesExact
  BY DEF ClockInv, PausesExact
<1> QED BY <1>1, ClockInitInv, ClockNextInv, PTL DEF ClockSpec

=============================================================================
