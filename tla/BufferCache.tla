---------------------------- MODULE BufferCache ----------------------------
(***************************************************************************)
(* The buffer cache (kernel/bio.c) and the sleep-locks of its buffers      *)
(* (kernel/sleeplock.c).                                                   *)
(*                                                                         *)
(* A step is what bcache->lock or the spinlock inside a sleep-lock makes   *)
(* atomic.  The callers are those of kernel/log.c and kernel/fs.c: while a *)
(* process has a buffer it may take a second one (a log block and then the *)
(* block it is for, an indirect block and then the bitmap), and a buffer   *)
(* it has changed is either written or pinned before it is released.       *)
(***************************************************************************)
EXTENDS Naturals, Sequences, FiniteSets, Functions

CONSTANTS BufProc, NBUF, BlockNo, BlockValue, BlockZero,
          Changed,        \* the blocks that calls change
          Nested,         \* <<b, c>>: c is taken by a process that has b
          MaxPinned,      \* bound: the most blocks the log pins at a time
          NoBuf

(* The buffer a process takes first, and the one it takes beside it.       *)
Use == BufProc \X {1, 2}

ASSUME BufferCacheAssumption ==
  /\ NBUF \in Nat /\ MaxPinned \in Nat /\ IsFiniteSet(BufProc)
  /\ BlockZero \in BlockValue /\ NoBuf \notin BlockValue \cup BlockNo \cup Use

VARIABLES disk_block,    \* the blocks on the disk
          bcache,        \* struct buf: block, valid, refcnt, data, lock
          lru,           \* the list, most recently used first
          buf_op         \* each use: where its process is, the block, the buffer

bufVars == <<disk_block, bcache, lru, buf_op>>

Buf == 1 .. NBUF

no_buf == [at |-> "none", blockno |-> NoBuf, buf |-> 0]

(* binit: the buffers cache nothing (dev is 0) and are pushed in front of  *)
(* each other.                                                             *)
binit ==
  /\ bcache = [i \in Buf |-> [blockno |-> NoBuf, valid |-> 0, refcnt |-> 0,
                              data |-> BlockZero, locked |-> NoBuf, pinned |-> 0]]
  /\ lru = [k \in 1 .. NBUF |-> NBUF + 1 - k]

BufferCacheInit ==
  /\ binit
  /\ disk_block = [b \in BlockNo |-> BlockZero]
  /\ buf_op = [p \in Use |-> no_buf]

buf_at(p) == buf_op[p].at
mine(p)   == buf_op[p].buf
buf_goto(p, l) == buf_op' = [buf_op EXCEPT ![p].at = l]

(* A process is inside bget, bread, bwrite or brelse of one use at a time. *)
other(p) == <<p[1], 3 - p[2]>>
turn(p)  == buf_at(other(p)) \in {"none", "held", "changed"}

(* What the callers of bread ask for.                                      *)
asks(p, b) ==
  /\ buf_at(p) = "none"
  /\ IF p[2] = 1 THEN buf_at(other(p)) = "none"
     ELSE buf_at(other(p)) = "held" /\ <<buf_op[other(p)].blockno, b>> \in Nested

(* bcache->lock is free between steps, but bget's panic keeps it.          *)
lock_free == \A p \in Use : buf_at(p) # "panic"

cached(b) == {i \in Buf : bcache[i].blockno = b}
free_bufs    == {k \in 1 .. NBUF : bcache[lru[k]].refcnt = 0}

-----------------------------------------------------------------------------
(* Faulty variant: the list is not searched before recycling.              *)
Bug_bget_no_search(p, b) ==
  /\ asks(p, b) /\ lock_free
  /\ \E k \in free_bufs :
       /\ \A j \in free_bufs : j <= k
       /\ bcache' = [bcache EXCEPT ![lru[k]].blockno = b, ![lru[k]].valid = 0,
                                   ![lru[k]].refcnt = 1, ![lru[k]].data = BlockZero]
       /\ buf_op' = [buf_op EXCEPT ![p] = [at |-> "lock", blockno |-> b, buf |-> lru[k]]]
  /\ UNCHANGED <<disk_block, lru>>

bget_hit(p, b) ==
  /\ asks(p, b) /\ lock_free
  /\ \E i \in cached(b) :
       /\ bcache' = [bcache EXCEPT ![i].refcnt = @ + 1]
       /\ buf_op' = [buf_op EXCEPT ![p] = [at |-> "lock", blockno |-> b, buf |-> i]]
  /\ UNCHANGED <<disk_block, lru>>

(* Faulty variant: the pinned buffers are taken too.                       *)
Bug_recycle_pinned(p, b) ==
  /\ asks(p, b) /\ lock_free /\ cached(b) = {}
  /\ LET free == {k \in 1 .. NBUF : bcache[lru[k]].refcnt = bcache[lru[k]].pinned}
     IN \E k \in free :
          /\ \A j \in free : j <= k
          /\ bcache' = [bcache EXCEPT ![lru[k]].blockno = b, ![lru[k]].valid = 0,
                                      ![lru[k]].refcnt = 1, ![lru[k]].data = BlockZero]
          /\ buf_op' = [buf_op EXCEPT ![p] = [at |-> "lock", blockno |-> b, buf |-> lru[k]]]
  /\ UNCHANGED <<disk_block, lru>>

(* The least recently used buffer that nobody refers to.                   *)
(* Its contents are not looked at again before valid is set.               *)
bget_recycle(p, b) ==
  /\ asks(p, b) /\ lock_free /\ cached(b) = {}
  /\ \E k \in free_bufs :
       /\ \A j \in free_bufs : j <= k
       /\ bcache' = [bcache EXCEPT ![lru[k]].blockno = b, ![lru[k]].valid = 0,
                                   ![lru[k]].refcnt = 1, ![lru[k]].data = BlockZero]
       /\ buf_op' = [buf_op EXCEPT ![p] = [at |-> "lock", blockno |-> b, buf |-> lru[k]]]
  /\ UNCHANGED <<disk_block, lru>>

(* Every buffer is referred to: the process stops, with bcache->lock held. *)
bget_panic(p, b) ==
  /\ asks(p, b) /\ lock_free /\ cached(b) = {} /\ free_bufs = {}
  /\ buf_goto(p, "panic")
  /\ UNCHANGED <<disk_block, bcache, lru>>

(* panic: for(;;).                                                         *)
panic_loop(p) == buf_at(p) = "panic" /\ UNCHANGED bufVars

(* One pass of the loop of acquiresleep.                                   *)
acquiresleep(p) ==
  /\ buf_at(p) = "lock" /\ bcache[mine(p)].locked = NoBuf
  /\ bcache' = [bcache EXCEPT ![mine(p)].locked = p]
  /\ buf_goto(p, IF bcache[mine(p)].valid = 1 THEN "held" ELSE "read")
  /\ UNCHANGED <<disk_block, lru>>

acquiresleep_sleep(p) ==
  /\ buf_at(p) = "lock" /\ bcache[mine(p)].locked # NoBuf
  /\ buf_goto(p, "asleep")
  /\ UNCHANGED <<disk_block, bcache, lru>>

(* bread of a block that is not valid: virtio_disk_rw, then valid = 1.     *)
bread_disk(p) ==
  /\ buf_at(p) = "read"
  /\ bcache' = [bcache EXCEPT ![mine(p)].data = disk_block[bcache[mine(p)].blockno],
                              ![mine(p)].valid = 1]
  /\ buf_goto(p, "held")
  /\ UNCHANGED <<disk_block, lru>>

-----------------------------------------------------------------------------
(* What the callers do with the buffer they hold.                          *)
holdingsleep(p) == bcache[mine(p)].locked = p

change(p, v) ==
  /\ buf_at(p) = "held" /\ bcache[mine(p)].blockno \in Changed
  /\ bcache' = [bcache EXCEPT ![mine(p)].data = v]
  /\ buf_goto(p, "changed")
  /\ UNCHANGED <<disk_block, lru>>

pinned == {i \in Buf : bcache[i].pinned > 0}

(* log_write's bpin; a block already logged is not pinned again.           *)
bpin(p) ==
  /\ buf_at(p) = "changed"
  /\ bcache[mine(p)].pinned = 0 => lock_free /\ Cardinality(pinned) < MaxPinned
  /\ bcache' = IF bcache[mine(p)].pinned = 0
               THEN [bcache EXCEPT ![mine(p)].refcnt = @ + 1, ![mine(p)].pinned = 1]
               ELSE bcache
  /\ buf_goto(p, "held")
  /\ UNCHANGED <<disk_block, lru>>

(* bwrite, with the bunpin that follows it in install_trans.               *)
bwrite(p) ==
  /\ buf_at(p) \in {"held", "changed"} /\ holdingsleep(p)
  /\ disk_block' = [disk_block EXCEPT ![bcache[mine(p)].blockno] = bcache[mine(p)].data]
  /\ buf_goto(p, IF bcache[mine(p)].pinned = 0 THEN "held" ELSE "unpin")
  /\ UNCHANGED <<bcache, lru>>

bunpin(p) ==
  /\ buf_at(p) = "unpin" /\ lock_free
  /\ bcache' = [bcache EXCEPT ![mine(p)].refcnt = @ - 1, ![mine(p)].pinned = 0]
  /\ buf_goto(p, "held")
  /\ UNCHANGED <<disk_block, lru>>

-----------------------------------------------------------------------------
(* releasesleep by p, which goes on at l: the sleepers are woken.          *)
releasesleep(p, l) ==
  /\ bcache' = [bcache EXCEPT ![mine(p)].locked = NoBuf]
  /\ buf_op' = [q \in Use |->
       CASE q = p -> [buf_op[p] EXCEPT !.at = l]
         [] q # p /\ buf_at(q) = "asleep" /\ mine(q) = mine(p) -> [buf_op[q] EXCEPT !.at = "lock"]
         [] OTHER -> buf_op[q]]

(* brelse: the lock is released ...                                        *)
brelse_unlock(p) ==
  /\ buf_at(p) = "held" /\ holdingsleep(p)
  /\ releasesleep(p, "drop")
  /\ UNCHANGED <<disk_block, lru>>

(* The list after buffer i has moved to its front.                         *)
to_front(i) ==
  LET at == CHOOSE k \in 1 .. NBUF : lru[k] = i
  IN [k \in 1 .. NBUF |-> CASE k = 1 -> i [] 1 < k /\ k <= at -> lru[k - 1] [] k > at -> lru[k]]

(* ... then, under bcache->lock, the reference goes, and the last one to   *)
(* go moves the buffer to the front of the list.                           *)
brelse_unref(p) ==
  /\ buf_at(p) = "drop" /\ lock_free
  /\ bcache' = [bcache EXCEPT ![mine(p)].refcnt = @ - 1]
  /\ lru' = IF bcache[mine(p)].refcnt = 1 THEN to_front(mine(p)) ELSE lru
  /\ buf_op' = [buf_op EXCEPT ![p] = no_buf]
  /\ UNCHANGED disk_block

buf_step(p) ==
  \/ acquiresleep_sleep(p) \/ bread_disk(p) \/ bunpin(p)
  \/ brelse_unlock(p) \/ brelse_unref(p)

BufferCacheNext ==
  \E p \in Use :
    /\ turn(p)
    /\ \/ buf_step(p) \/ acquiresleep(p) \/ bpin(p) \/ bwrite(p) \/ panic_loop(p)
       \/ \E b \in BlockNo : bget_hit(p, b) \/ bget_recycle(p, b) \/ bget_panic(p, b)
       \/ \E v \in BlockValue : change(p, v)

BufferCacheSpec == BufferCacheInit /\ [][BufferCacheNext]_bufVars

-----------------------------------------------------------------------------
BufferCacheTypeOK ==
  /\ disk_block \in [BlockNo -> BlockValue]
  /\ bcache \in [Buf -> [blockno : BlockNo \cup {NoBuf}, valid : 0 .. 1, refcnt : Nat,
                         data : BlockValue, locked : Use \cup {NoBuf}, pinned : 0 .. 1]]
  /\ lru \in [1 .. NBUF -> Buf]
  /\ buf_op \in [Use ->
       [at : {"none", "lock", "asleep", "read", "held", "changed", "unpin", "drop", "panic"},
        blockno : BlockNo \cup {NoBuf}, buf : Buf \cup {0}]]

(* A block has at most one buffer, although bget searches the list and     *)
(* recycles in one critical section but locks the buffer after it: the     *)
(* reference taken under bcache->lock is what keeps it from being recycled *)
(* for another block while a process waits for the sleep-lock.             *)
OneBufferPerBlock ==
  /\ \A i, j \in Buf : i # j /\ bcache[i].blockno = bcache[j].blockno => bcache[i].blockno = NoBuf
  /\ \A p \in Use : buf_at(p) \notin {"none", "drop", "panic"} =>
       bcache[mine(p)].blockno = buf_op[p].blockno

(* refcnt counts the processes that have the buffer or wait for it, and    *)
(* the pins; the list stays a permutation of the buffers.                  *)
RefcntExact ==
  /\ \A i \in Buf : bcache[i].refcnt =
       Cardinality({p \in Use : mine(p) = i}) + bcache[i].pinned
  /\ Range(lru) = Buf

(* bget panics only when the cache is full: as long as the uses in         *)
(* progress and the pinned blocks are fewer than the buffers, one is free. *)
(* Nothing bounds them in the code: NPROC processes may be reading at the  *)
(* same time.                                                              *)
PanicOnlyWhenFull ==
  Cardinality({p \in Use : mine(p) # 0}) + Cardinality(pinned) < NBUF => free_bufs # {}

(* No lost wakeup: a process sleeps for a buffer only while another one    *)
(* has it.                                                                 *)
BufferSleepersMustWait ==
  \A p \in Use : buf_at(p) = "asleep" => bcache[mine(p)].locked \notin {NoBuf, p}

(* All of that: the books of the cache, which bget and brelse keep in      *)
(* separate critical sections.                                             *)
BuffersExact ==
  OneBufferPerBlock /\ RefcntExact /\ PanicOnlyWhenFull /\ BufferSleepersMustWait

(* How bio.c implements the contract the log is built on.                  *)
Contract == INSTANCE BlockCache WITH
  Proc <- Use, Block <- BlockNo, Value <- BlockValue, InitValue <- BlockZero,
  home <- disk_block,
  copy <- [b \in BlockNo |->
             LET v == {i \in cached(b) : bcache[i].valid = 1}
             IN IF v = {} THEN NoBuf ELSE bcache[CHOOSE i \in v : TRUE].data],
  pins <- [b \in BlockNo |->
             LET v == cached(b) IN IF v = {} THEN 0 ELSE bcache[CHOOSE i \in v : TRUE].pinned],
  holder <- [b \in BlockNo |->
               LET h == {p \in Use : buf_at(p) \in {"held", "changed", "unpin"} /\ buf_op[p].blockno = b}
               IN IF h = {} THEN NoBuf ELSE CHOOSE p \in h : TRUE]

(* bio.c implements the contract the log is built on: one copy of a block, *)
(* one user at a time, and no change forgotten.                            *)
BufferCacheContract ==
  Contract!CacheInit /\ [][UNCHANGED Contract!cacheVars \/ Contract!CacheNext]_bufVars

=============================================================================
