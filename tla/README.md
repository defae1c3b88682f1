# A verification of the xv6 slab allocator kernel

This directory holds TLA+ models of an xv6 kernel whose page allocator has been
replaced by a buddy allocator with a slab allocator on top (one instance for the
kernel, one for each process that asks for it), the TLC configurations that
check them, and TLAPS proofs. Paths below are relative to
`src/xv6 slab allocator/kernel/`.

`PROJECT.json` says which lines each definition stands for (`map`), what can go
wrong where (`hazards`), and which change of the code each property would notice
(`mutants`).

## The system

| Part | Code | Who runs it | Module |
|---|---|---|---|
| Buddy allocator | `buddy.c` | any CPU, under `buddy_lock` | `Buddy`, contract `PageAllocator` |
| Slab allocator, `kalloc` | `slab.c`, `kalloc.c` | any CPU, a lock per cache; growing and shrinking take `buddy_lock` in between | `Slab`, layout in `SlabLayout` |
| Start-up of an allocator | `slab.c` (`my_kinit`, `kmem_init`) | once per region, alone | `KmemInit` |
| Allocator system calls | `sysproc.c`, `kmem_state.h` | processes, preemptible | `KmemActive` |
| Log | `log.c` | processes; recovery at boot | `Log`, contract `Transactions` |
| Buffer cache, sleep-locks | `bio.c`, `sleeplock.c` | processes | `BufferCache`, contract `BlockCache` |
| Disk driver | `virtio_disk.c` | processes, the device, the interrupt | `VirtioDisk` |
| Pipes | `pipe.c` | processes | `Pipe`, contract `Fifo` |
| Console, UART | `console.c`, `uart.c` | processes, the interrupt | `Console`, contract `LineDiscipline` |
| Clock, pause | `trap.c`, `sysproc.c` | the timer interrupt, processes | `Clock` |
| Spinlocks, scheduling | `spinlock.c`, `trap.c`, `proc.c`, `swtch.S` | all CPUs | `Spinlock` |
| Processes | `proc.c` | all CPUs | `Process` |
| Open files | `file.c`, `sysfile.c` | processes | `FileTable` |
| Inodes, directories | `fs.c`, `sysfile.c` | processes | `Inode` |
| Address spaces, exec | `vm.c`, `exec.c` | processes | `Vm` |

The parts meet as follows. The slab layer, `kalloc` and `sys_kmem_init` take
pages from the buddy allocator; the slab layer marks the pages of its slabs in
`block_meta[].owner_slab`, which `buddy_free` reads. All of them find their state
through `curr_kmem()`, that is, through the CPU. File system calls run inside
transactions of the log, which works on blocks of the buffer cache, which reads
and writes through the disk driver. Files, pipes, buffers and processes' pages
come from the allocators.

Each lower layer is seen by the one above through its contract: `Slab` uses the
actions of `PageAllocator`, which `Buddy` is proved to implement; `Log` has one
cached copy per block, pins and recycling as in `BlockCache`, which `BufferCache`
is proved to implement; a call of `Inode` is one transaction of `Transactions`,
which `Log` is proved to implement. A layer's results therefore do not depend on how the
layer below does its work.

## The modules

Steps are what the code's locks make atomic: one step per stretch under a
spinlock, or per pass of a loop where other actors get in during the loop. A
process has a place (`pc`, or the field `at` of its operation) and the locals it
carries from one step to the next. Error codes, printing and junk fill are left
out. Variables that the code does not have are named where they are declared;
they record history for a property and no action of the code reads them.

**Buddy.** A page is its index in `block_meta`, a free list a sequence, head
first. `op` is the loop the holder of `buddy_lock` is in (`init`, `split`,
`merge`), or `idle`; `blk`, `ord`, `target` are its locals. `buddy_of` is XOR on
the absolute address, as in the code, so the position of `managed_start` matters:
`buddy_init` aligns by index, merging by address. `managed_start` is any of
`Starts`.

**Slab.** `cache[c]` is a descriptor of `cache_pool`, `slab[p]` the header at
page `p`, an object a slab and an index. Where the code reads `slab_order` or
`objs_per_slab` outside a lock, so does the model, in a step of its own. A
cache's lock is a variable because `kmem_cache_destroy` keeps it over two steps
and `kmem_cache_create` initialises it anew. Callers keep to their contract
except as `Clients` says: `overlap` (destroy a cache that others use),
`wrong_cache`, `double_free` (free again when the slab is empty or gone, the case
the code detects, while nobody else is calling).

**SlabLayout, KmemInit.** Arithmetic in bytes with the constants of the rv64
build; `SlabLayout` takes a step for each order the loop tries. It creates the
caches of kmalloc from the sizes written in `kmem_init` (`kmalloc_caches_sizes`),
and chooses among them by the limits written in `kmalloc_index`
(`kmalloc_index_limits`): two tables, as in the code, so that a disagreement
between them would show. `KmemInit`
assumes that the kernel's region is larger than its tables; otherwise the
unsigned `avail` wraps.

**KmemActive.** `active_kmem[c]` is the allocator that CPU `c` works on. A
process may lose its CPU at any step; early returns of `cache_create` and
`cache_alloc` leave out `kmem_pop`, as in the code. `used` records whose state the
last allocation worked on.

**Log.** A step is a critical section of `log.lock` or one write to the disk, so
that a crash falls between any two writes, in recovery too. The disk is `home`,
`logblock` and `header`; writing a block is atomic, and the header lies within a
sector. `chan[p]` tells `sleep(&log)` from `sleep(log)`, different addresses since
`log` became a pointer. `wrote[p]` is history. Calls write at most `OpBlocks`
different blocks, and `OpBlocks < MAXOPBLOCKS`: with exactly `MAXOPBLOCKS`,
`log_write` would panic on a full log even for a block it has logged already,
because it looks at the size before it looks for the block (`log.c:226`). The
calls of `fs.c` stay below. `initlog` does not clear `outstanding` and
`committing`; the model starts them at zero, which unused memory holds at boot.

**BufferCache.** `bcache[i]` is a `struct buf` with its sleep-lock, `lru` the
list. A process holds one buffer, or two: `install_trans` and `write_log` have a
block of the log and its home at a time (`log.c:80`, `190`), `bmap` and `itrunc` an
indirect block and the bitmap (`fs.c:448`, `481`). `Use` is a process with its
first or second buffer, and `Nested` the pairs of blocks that are asked for in
this way. A process writes or pins what it has changed before it releases it, as
the callers do. `pinned` is the part of `refcnt` that belongs to the log. When no
buffer is left `bget` panics, and the process stays where it is with
`bcache.lock` held: nothing in the module's assumptions rules that out.

**VirtioDisk.** Descriptors, both rings with indices that wrap, the device
(external: it takes requests in order, completes them in any order and raises the
interrupt), the handler. A process stands for the buffer it has locked.

**Pipe, Console, Clock.** Counters wrap at `UINT`, `UINTC`, `UINTT`. `copyin` and
`copyout` may fail at any byte; `kkill` may wake a sleeper at any point. The UART
is external. In the program `pipe_cache` is never assigned (`pipeinit` drops the
cache it creates, `pipe.c:27`), so `pipealloc` fails and with it every `pipe()`;
`Pipe` models the code as it works with the cache, and `FileTable` has
`pipe_cache` as a constant, for both cases.

**Spinlock.** A context is the sequence of instructions it has still to run; an
interrupt puts those of its handler in front. `acquire`, `release`, `push_off` and
`pop_off` are modelled instruction by instruction with `noff`, `intena`, the
scheduler and `swtch`, and so are `sleep` and `wakeup` with the two locks they
hand over. User mode and kernel mode with interrupts on are not told
apart: in both an interrupt may come at any instruction.

**Process.** The process table under `p->lock` and `wait_lock`; pages are counted,
the arena of a process that called `kmem_init` among them, which `freeproc` does not
give back. **FileTable.** Descriptors, reference counts, `nfiles`, the objects of
`file_cache`. **Inode.** Inodes on disk and in the table, link counts, the bitmap,
directories (without ".", which is in no count) and path lookup, under create,
mkdir, mknod, open, chdir, link and unlink, and a reboot with the `ireclaim` that
follows it; a file or directory has one block.
**Vm.** Page tables as finite maps with their table pages. A call is one step in
which any `kalloc` may fail; `uvmcopy` does not copy the page of `ukmem`, which is
counted in `Process`.

## Runs

Three runs put components side by side that share no variable (`MCStorage`,
`MCSleep`, `MCKernel`): the variable `which` picks one component for the whole
behaviour, and the others stay as they are at first. This saves nothing but
configurations; each component is explored completely.

| Run | Shows | Bounds |
|---|---|---|
| `slab_core` | slab books, lists, lookup by page, page accounting, intact caches, use of the page layer | 2 threads, 2 caches, slabs of two pages and two objects, 4 pages |
| `slab_overlap` | destruction racing allocation and free, frees to the wrong cache, `kmem_cache_destroy` returns | 2 threads, 2 caches, one-page slabs |
| `log` | `Log`: crashes leave whole transactions, space, pins, waiters for a commit wake. `BufferCache`: its books, and that it implements `BlockCache` | 2 processes, 2 blocks, 2 values, 2 crashes; 2 processes with up to 2 buffers each, 2 buffers in all, 4 blocks, two of them changed and pinned |
| `sleep` | no lost wakeup in pipes, console, UART, disk driver, clock and `wait`; pipes and console implement `Fifo` and `LineDiscipline`; descriptors and rings are exact, a request given to the disk is completed and its process woken; the tree of processes; no interrupt inside a lock its handler takes, no wakeup inside `sleep` missed | 3 processes at a pipe of 2 bytes; 2 readers, 1 writer of 3 characters in batches of 2, all five kinds of input character; 3 requests on 7 descriptors; 2 pauses on a clock of 5 ticks; 4 processes on 2 CPUs with 16 pages; 2 threads on 2 CPUs |
| `kernel` | `SlabLayout`, `KmemInit`, `FileTable`, `Inode`, `Vm`; `Buddy`: partition, coherent lists and marks, coalescing, every operation releases `buddy_lock`, implements `PageAllocator` | all object sizes to 4200 and around each boundary above; kernels of several sizes and arenas from 1 page up; 6 pages at 8 (aligned) and at 5 (index and address alignment disagree), orders 0..2; 2 processes with 2 descriptors each; 3 inodes, 2 blocks; 2 address spaces over 15 frames |

Why these bounds are enough for the interesting cases:

- Two threads and two caches interleave every pair of critical sections and can
  confuse slabs of different caches. Two objects per slab give full, partial and
  empty slabs; pages for two slabs make memory run out and come back as another
  slab.
- Six pages with order 2 hold blocks that split and merge on both levels and a
  tail that is not a power of two.
- Two log processes share a transaction, meet a commit and a log without room; two
  blocks can be torn apart by a crash, and the second crash can hit the recovery
  from the first. Two buffers for two processes that may hold two each and pin two
  blocks let `bget` find a cached block, recycle, wait for a lock and panic; four
  blocks are a block of the log, its home and indirect block, the bitmap, and one
  more that displaces them.
- Every counter that wraps in the code wraps after a few steps in the model, and
  its modulus is a multiple of its buffer, as 2^32 is.
- Seven descriptors hold two requests, so the third waits for a chain of three
  while one descriptor is free. Sixteen pages let three children live, and with
  the arenas some of them take `fork` fails at each of its allocations.

No symmetry is used: page numbers are not symmetric (alignment), processes have
different roles in most instances, and symmetry is unsound for liveness. No run
turns the deadlock check off; a finished computation of `KmemInit` or
`SlabLayout` stutters in `MCStartup`.

In every component all actions and all their branches are taken, with one
exception: the failure branch of the shared exit path, inlined in the first step
of `link`, where there is nothing to undo.

### Where the code and its comments disagree

| Run | What happens | Comment |
|---|---|---|
| `slab_destroy_create` | a slot is claimed between `is_used = 0` and the zeroing of its fields; the new cache ends with an empty layout | `slab.c:805` |
| `slab_destroy_alloc` | an allocation undoes its publication with the `slab_order` of a destroyed cache (0), leaving pages marked as a slab | `slab.c:585` |
| `kmem_active` | a preempted allocator call leaves its state active for other processes | `proc.h:117` |
| `log_space` | a call that waits for log space sleeps on a channel nobody wakes | `log.c:22` |
| `file_objects` | the last close frees a copy on the stack, so the object never returns to `file_cache` | `file.c:72`, `78` |
| `arena_returned` | a process that called `kmem_init` is reaped and its arena's pages are lost | `proc.c:195` |
| `removed_dir` | ".." of a removed directory leads to a freed inode | `fs.c:334` |

The first is why `slab_core` has one thread that both creates and destroys: its
properties hold when the two do not overlap. The second is why `slab_overlap` has
one-page slabs, and why the contract of the page layer (`PageContract`) is checked
in `slab_core` only. Because of the last the instance of `kernel` has no process
that looks up "..".

Five more facts have no comment to contradict:

- A killed writer returns from `pipewrite` without waking readers (`pipe.c:93`), so
  `PipeSleepersMustWait` excepts readers beside a killed writer's bytes.
- `sys_kmem_init` accepts any number of pages, but the tables take over four of
  them: with five pages none is left to manage, with fewer the tables end outside
  the arena; `RegionsInOrder` is stated for arenas with room.
- `bget` can panic. `BuffersExact` says exactly when it does not: while fewer
  buffers are held and pinned than there are (`PanicOnlyWhenFull`). The program
  does not stay below that, since `NBUF` and `LOGBLOCKS` are both 30 and up to
  `NPROC` readers outside transactions hold buffers too.
- A name entered in a directory after its removal is dropped with the directory
  and its inode keeps the count; `LinksSettled` excepts that one step.
- Nothing bounds the wait for disk descriptors: the process that frees three of
  them may take them again before the one it woke has run. What holds is that
  nobody is asleep while three are free (`DiskWaitsExact`, part of `WaitsExact`).

## Fairness

- `kernel`, for the buddy allocator only: weak fairness of the lock holder. `acquire` turns interrupts off and
  nothing under `buddy_lock` sleeps.
- `slab_overlap`: weak fairness of each thread inside the allocator. The scheduler
  is round robin and every spinlock is released after a bounded number of steps.
  Nothing is assumed of callers.
- `log`, `log_space`: weak fairness of a process inside `log.c` and of recovery;
  strong fairness of `end_op`, since a call may log blocks again and again but
  comes to its end.
- `sleep`, for the disk only: weak fairness of the device, which takes what it is
  given and completes each request, and of the interrupt handler. Nothing is
  assumed of the processes: `RequestsFinish` is about a request from its
  submission to the handler's wakeup of its process.

## Proofs

A theorem holds for every value of the constants that satisfies the named
assumptions of its module; TLC evaluates those assumptions on every run.

**`BuddyProof`**: type correctness, `FreeListsExact`, `Partition` and
`PageAllocatorSpec` for every region, maximal order and position. The inductive
invariant is `TypeOK /\ FreeListsExact /\ Partition /\ LocalInv`. `Partition`
alone is not inductive: merging removes the buddy from its list and clears its
mark, which keeps the partition only if mark and list agree; splitting needs
`target <= ord` and a page in hand (`LocalInv`). The argument about pages is in
three lemmas over any assignment of sizes to heads (`TilesAppend`, `TilesSplit`,
`TilesMerge`); the last needs only that the two blocks are adjacent and equal,
which is all that XOR gives in a misaligned region. Powers of two are not
unfolded: the proofs use the facts that `PageParams` assumes and TLC evaluates.
`BuddyRefines` maps `held` to the allocated heads; `buddy_alloc_done` is `Alloc`,
`buddy_free` is `Free`, `set_owner_slab` is `SetOwner`, the rest stutters.

**`PageAllocatorProof`**: under the contract a page that names a slab lies in a
held block that begins there, all of whose pages name it. Disjoint blocks, the
contract's own condition on `Alloc`, are part of the invariant: without them
marking one block could split the marks of another.

**`ArithmeticProof`**, the slab layout: the second count of objects is at most the first, so its
link array is at most as long and the objects begin no later than the first pass
allowed for (`AlignUpMono`, `DivFits`).

**`ArithmeticProof`**, kmalloc: the invariant says that the caches made so far have
the sizes of the first table (`CachesLeft`, `CreateStep`, `ReturnStep`); none is
NULL, because some order has room for enough objects of each size
(`KmallocSizeAssumption`, which TLC evaluates with the program's constants). The
choice by the second table is then the smallest cache that is large enough
(`KmallocChoice`), and a refusal means there is none (`KmallocRefusal`).

**`ArithmeticProof`**, start-up: rounding the tables up and the windows down stays inside the
region (`RoundUp`, `RoundDown`), and the minimum heap is a whole number of pages.

**`ArithmeticProof`**, the clock: `PausesExact` (the clock's part of `WaitsExact`), for every
width of the counter. `ClockInv` says that, during a pause, `ticks` is its time of
call plus the interrupts since, modulo the width, and that the process holds
`tickslock` from its test until it sleeps. The unsigned difference is then the
number of interrupts (`Elapsed`), whether `ticks` has wrapped or not, as no pause
is as long as the counter is wide.

**`BufferCacheProof`, `BufferContractProof`**: `BuffersExact` and
`BufferCacheContract` (concluded in `StorageProof`), for any number of processes,
each with up to two buffers, of buffers and of blocks; nothing is assumed about
there being enough buffers. The invariant and the mapping are in `BufferCacheInvariant`; `BufferCacheProof` shows that every
step keeps `BufInv`, `BufferContractProof` that it keeps `DataExact` and is a step
of the contract.

- `BufInv` adds to `BuffersExact` that a process past `bget` has a buffer and a
  block (`HasBuffer`), that a sleep-lock belongs to the process between
  `acquiresleep` and `releasesleep` (`LockExact`), and that a buffer about to be
  unpinned is pinned (`PinExact`). The reference counts need them because `brelse`
  gives up the lock first and the reference later. When `bget` panics follows by
  counting (`BufferLeft`): a buffer in use is a process's or pinned, so one is left
  while there are fewer of those than buffers.
- `DataExact` relates contents: a buffer that is valid, not pinned and not being
  changed equals its block on the disk. It is what lets `bget` recycle without
  writing back.
- The contract sees of the cache the copy, the pins and the holder of each block
  (`CopyOf`, `PinsOf`, `HolderOf`). One lemma per action says what it does to the
  fields these depend on (`AcquireEffect` ... `RecycleEffect`); `SeenSame`,
  `SeenOne` and `HolderSame`, `HolderGains`, `HolderLoses` turn that into changes
  of the mapped variables. Taking the lock of a valid buffer, or reading an
  invalid one, is `Acquire`; recycling a valid buffer is `Drop` of its old block.

**`LogProof`, `LogStepProof`**: `LogExact` and `TransactionsSpec` (concluded in
`StorageProof`), for any number of processes, blocks, values and crashes. The
invariant is in `LogInvariant`. `LogProof` has the steps that change the number of
calls or of logged blocks, with the counting they need; `LogStepProof` the others
and the refinement.

- `LogInv` has twelve conjuncts. Those that carry the weight: `OneCommitter` (no
  call is in progress while one process commits without `log.lock`); `Counts`
  (`outstanding` is the number of calls in progress); `Written` (what a call has
  logged is in the header, and is few); `Headers` (the header on the disk is that
  in memory from `write_head` until it is erased, else empty); `Clean` (an
  unpinned buffer that nobody is changing equals the disk); `Copied` (how far the
  loops of commit and recovery have come).
- `LogExact` says there is always room for what calls in progress may still log.
  `Space` is inductive with the blocks already logged counted once;
  `LoggedBound` bounds these through an injection into pairs of a call and a
  number up to `OpBlocks`, and `RoomToLog` concludes that `log_write` never finds
  the log full. This is where `OpBlocks < MAXOPBLOCKS` is needed.
- The refinement maps `stable` to what recovery would make of the disk now, `mem`
  to what `bread` returns, and `active` to the calls in progress. `write_head`
  with a non-empty header is `Commit`; installing leaves the mapped disk alone
  because replaying the log over a partly installed disk gives the same blocks
  (`Replay`, `InstallKeeps`); the header may be erased because everything is
  installed (`Erasable`); a crash is `Crash` since buffers are gone and the mapped
  disk is unchanged.

Model-checked only:

- liveness (`BuddyLockReleased`, `DestroyReturns`, `CommitWaitersWake`,
  `RequestsFinish`), which is out of the prover's reach;
- `Coalesced`, `OrderMinimal` and `LinksSettled`;
- the invariants of `Slab`, `Pipe`, `Console`, `VirtioDisk`, `Spinlock`,
  `Process`, `FileTable`, `Inode` and `Vm`, and that `Pipe` and `Console`
  implement their contracts.

## Not modelled

- The contents of files, indirect blocks, and `stat`.
- The translation of window addresses in the allocator system calls, and two
  allocator states inside one operation when its process moves to another CPU
  (`KmemActive` shows the cause).
- The kernel's own page table and the bits of page table entries.
- Saving of registers, the PLIC, assembler code, hardware initialisation.
- Printing and strings; user programs, the user side of the allocator and `mkfs`.
