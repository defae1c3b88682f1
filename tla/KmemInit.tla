------------------------------- MODULE KmemInit -------------------------------
(***************************************************************************)
(* kmem_init (kernel/slab.c): how a region is divided up.  The allocator's *)
(* own tables come first, then the pages it manages; in the kernel's       *)
(* region the windows kept for processes follow.  Called once for the      *)
(* kernel (my_kinit) and once for the arena of a process (sys_kmem_init).  *)
(*                                                                         *)
(* Addresses and sizes are in bytes.  managed_num_blocks is the int that   *)
(* the uint64 difference is converted to, negative when the difference is. *)
(***************************************************************************)
EXTENDS Integers

CONSTANTS PGSIZE,
          FREE_AREA,             \* (MAX_ORDER + 1) * sizeof(void*)
          BLOCK_META,            \* sizeof(block_meta_t)
          CACHE_POOL,            \* MAX_NUM_CACHES * sizeof(kmem_cache_t)
          MIN_KERNEL_HEAP_BYTES,
          KHEAPWIN_SIZE,
          Requests               \* the calls: [kernel, space, block_num]

(* The tables of a region of n blocks.                                     *)
tables(n) == FREE_AREA + n * BLOCK_META + CACHE_POOL

(* The kernel's region is larger than its tables: otherwise the unsigned   *)
(* difference that kmem_init compares with the minimum heap wraps around.  *)
ASSUME InitAssumption ==
  /\ {PGSIZE, KHEAPWIN_SIZE, FREE_AREA, CACHE_POOL} \subseteq Nat \ {0}
  /\ {BLOCK_META, MIN_KERNEL_HEAP_BYTES} \subseteq Nat
  /\ MIN_KERNEL_HEAP_BYTES % PGSIZE = 0
  /\ \A r \in Requests :
       /\ r.kernel \in BOOLEAN /\ r.space \in Nat /\ r.block_num \in Nat
       /\ r.kernel => r.block_num * PGSIZE >= tables(r.block_num) + PGSIZE

VARIABLES stage, req,
          boot,                  \* the end of the tables
          alloc_lo, alloc_hi,
          kheapwin_base0, kheapwin_total,
          managed_num_blocks

regionVars == <<stage, req, boot, alloc_lo, alloc_hi, kheapwin_base0, kheapwin_total, managed_num_blocks>>

NoRequest == [kernel |-> FALSE, space |-> 0, block_num |-> 0]

region_end == req.space + req.block_num * PGSIZE

RegionInit ==
  /\ stage = "start" /\ req = NoRequest
  /\ boot = 0 /\ alloc_lo = 0 /\ alloc_hi = 0
  /\ kheapwin_base0 = 0 /\ kheapwin_total = 0 /\ managed_num_blocks = 0

(* Faulty variant: the managed pages begin at the end of the tables.       *)
Bug_tables_unaligned(r) ==
  /\ stage = "start"
  /\ req' = r
  /\ boot' = r.space + tables(r.block_num)
  /\ alloc_lo' = boot' - (boot' % PGSIZE)
  /\ alloc_hi' = r.space + r.block_num * PGSIZE
  /\ stage' = IF r.kernel THEN "carve" ELSE "manage"
  /\ UNCHANGED <<kheapwin_base0, kheapwin_total, managed_num_blocks>>

(* The tables, rounded up to a page.                                       *)
kmem_init(r) ==
  /\ stage = "start"
  /\ req' = r
  /\ boot' = r.space + tables(r.block_num)
  /\ alloc_lo' = IF boot' % PGSIZE = 0 THEN boot' ELSE boot' + (PGSIZE - (boot' % PGSIZE))
  /\ alloc_hi' = r.space + r.block_num * PGSIZE
  /\ stage' = IF r.kernel THEN "carve" ELSE "manage"
  /\ UNCHANGED <<kheapwin_base0, kheapwin_total, managed_num_blocks>>

avail == alloc_hi - alloc_lo

(* Faulty variant: the heap is not kept out of what the windows may take.  *)
Bug_windows_take_heap == avail \div KHEAPWIN_SIZE

(* The windows: as many as fit above the minimum heap, at the top.         *)
nwin == (avail - MIN_KERNEL_HEAP_BYTES) \div KHEAPWIN_SIZE

windows_base ==
  LET b == alloc_hi - nwin * KHEAPWIN_SIZE
  IN b - (b % PGSIZE)

carve_fails == avail <= MIN_KERNEL_HEAP_BYTES \/ nwin < 1 \/ windows_base <= alloc_lo

carve_windows ==
  /\ stage = "carve" /\ ~carve_fails
  /\ kheapwin_total' = nwin * KHEAPWIN_SIZE
  /\ kheapwin_base0' = windows_base
  /\ alloc_hi' = windows_base
  /\ stage' = "manage"
  /\ UNCHANGED <<req, boot, alloc_lo, managed_num_blocks>>

carve_panic ==
  /\ stage = "carve" /\ carve_fails
  /\ stage' = "panic"
  /\ UNCHANGED <<req, boot, alloc_lo, alloc_hi, kheapwin_base0, kheapwin_total, managed_num_blocks>>

manage ==
  /\ stage = "manage"
  /\ managed_num_blocks' = (alloc_hi - alloc_lo) \div PGSIZE
  /\ stage' = "ready"
  /\ UNCHANGED <<req, boot, alloc_lo, alloc_hi, kheapwin_base0, kheapwin_total>>

RegionNext ==
  \/ \E r \in Requests : kmem_init(r)
  \/ carve_windows \/ carve_panic \/ manage

RegionSpec == RegionInit /\ [][RegionNext]_regionVars

-----------------------------------------------------------------------------
RegionTypeOK ==
  /\ stage \in {"start", "carve", "manage", "ready", "panic"}
  /\ req \in Requests \cup {NoRequest}
  /\ boot \in Nat /\ alloc_lo \in Nat /\ alloc_hi \in Nat
  /\ kheapwin_base0 \in Nat /\ kheapwin_total \in Nat
  /\ managed_num_blocks \in Int

(* A process's arena has room for its tables and for a page.               *)
(* sys_kmem_init accepts smaller ones: the tables of five pages leave none *)
(* to manage, those of four or fewer end outside the arena.                *)
ArenaLargeEnough == ~req.kernel => tables(req.block_num) + PGSIZE <= req.block_num * PGSIZE

(* The region is divided without overlap: tables, managed pages (aligned,  *)
(* each with an entry in block_meta), and in the kernel the windows.       *)
RegionsInOrder ==
  stage = "ready" /\ ArenaLargeEnough =>
    LET managed_end == alloc_lo + managed_num_blocks * PGSIZE
    IN /\ req.space < boot /\ boot <= alloc_lo /\ alloc_lo % PGSIZE = 0
       /\ managed_num_blocks \in 0 .. req.block_num
       /\ managed_end <= region_end
       /\ req.kernel => /\ managed_end <= kheapwin_base0
                        /\ kheapwin_base0 + kheapwin_total <= region_end

(* The kernel's heap has the minimum size, whatever the windows take.      *)
KernelHeapKept ==
  stage = "ready" /\ req.kernel => managed_num_blocks * PGSIZE >= MIN_KERNEL_HEAP_BYTES

=============================================================================
