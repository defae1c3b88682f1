----------------------------- MODULE MCStartup -----------------------------
(* The computations of kmem_init and kmem_cache_create with the sizes of   *)
(* the rv64 build.  They share no state, so each is explored from the      *)
(* other's initial state.  Addresses are counted from KERNBASE, itself     *)
(* page-aligned, to keep within TLC's integers.                            *)
EXTENDS SlabLayout, KmemInit

MB == 1024 * 1024

(* my_kinit, for kernels of several sizes (end is 16-byte aligned) and     *)
(* machines with less memory than the 128 MB of PHYSTOP.                   *)
KernelRequests ==
  {[kernel |-> TRUE, space |-> e, block_num |-> (phystop - e) \div 4096] :
     e \in {131072 + 16 * k : k \in {0, 1, 9, 127, 128, 255}},
     phystop \in {33 * MB, 35 * MB, 36 * MB, 37 * MB, 40 * MB, 64 * MB, 128 * MB}}

(* sys_kmem_init: a block of the kernel's heap.                            *)
Arenas == {[kernel |-> FALSE, space |-> 4 * MB, block_num |-> n] :
             n \in (1 .. 40) \cup {63, 64, 65, 127, 128, 255, 256, 512, 1000, 1023, 1024}}

MCRequests == KernelRequests \cup Arenas

(* Every size up to a page, and the sizes around each multiple of an eighth of a  *)
(* page and around each power of two up to the largest kmalloc size.       *)
MCSizes ==
  (0 .. 4200)
  \cup {k * 512 + d : k \in 9 .. 40, d \in -41 .. 9}
  \cup UNION {{2^k + d : d \in -50 .. 9} : k \in 12 .. 18}

StartupInit == LayoutInit /\ RegionInit

(* A region that is set up stays as it is.                                 *)
StartupNext ==
  \/ stage = "start" /\ LayoutNext /\ UNCHANGED regionVars
  \/ pc = "idle" /\ kmalloc_caches = <<>> /\ RegionNext /\ UNCHANGED layoutVars
  \/ stage \in {"ready", "panic"} /\ UNCHANGED <<layoutVars, regionVars>>

=============================================================================
