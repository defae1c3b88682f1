--------------------------------- MODULE Log ---------------------------------
(***************************************************************************)
(* The log (kernel/log.c): file system calls of several processes share a  *)
(* transaction; the last one to end commits it, block by block, and a      *)
(* restart after a crash finishes a commit that reached its header.        *)
(*                                                                         *)
(* A step is what log.lock makes atomic, or one write to the disk.  A      *)
(* block write is atomic (the header is within one sector).  Of the buffer *)
(* cache below the log there is what the log relies on: a buffer is used   *)
(* by one process at a time, and it may be recycled for another block      *)
(* whenever nobody holds or pins it.                                       *)
(***************************************************************************)
EXTENDS Naturals, Sequences, FiniteSets, Functions

CONSTANTS Proc,
          Block,               \* home blocks
          Value, InitValue,    \* contents of a block
          LOGBLOCKS, MAXOPBLOCKS,
          OpBlocks,            \* the most blocks a call of fs.c really writes
          MaxCrashes,          \* bound on the number of crashes
          None

ASSUME LogAssumption ==
  /\ IsFiniteSet(Proc) /\ LOGBLOCKS \in Nat /\ MAXOPBLOCKS \in Nat /\ OpBlocks \in Nat
  /\ MaxCrashes \in Nat
  /\ OpBlocks < MAXOPBLOCKS /\ MAXOPBLOCKS <= LOGBLOCKS
  /\ InitValue \in Value
  /\ None \notin Value \cup Block /\ None \notin {"log", "&log"}

VARIABLES home,                \* disk: the blocks in their places
          logblock,            \*       the blocks of the log
          header,              \*       the log header, block numbers in order
          lh,                  \* struct log: the header in memory
          outstanding, committing,
          cache,               \* buffer cache: contents of a block, or None
          pins,                \*       references taken by bpin
          pc, chan,            \* each process: where it is, what it sleeps on
          buf,                 \*       the buffer it holds, or None
          wrote,               \*       the blocks its call has logged
          tail,                \* the index of the loops of the committer
          boot,                \* initlog: where the first process is
          crashes

disk     == <<home, logblock, header>>
struct   == <<lh, outstanding, committing>>
bufcache == <<cache, pins>>
procs    == <<pc, chan, buf, wrote>>
vars     == <<disk, struct, bufcache, procs, tail, boot, crashes>>

(* What bread returns: the cached contents, or else those on the disk.     *)
bread(b) == IF cache[b] # None THEN cache[b] ELSE home[b]

locked(b) == \E p \in Proc : buf[p] = b

goto(p, l) == pc' = [pc EXCEPT ![p] = l]

(* initlog clears neither outstanding nor committing: kmalloc's memory has *)
(* not been used before, and is zero on the machine the kernel runs on.    *)
Init ==
  /\ home = [b \in Block |-> InitValue]
  /\ logblock = [i \in 1 .. LOGBLOCKS |-> InitValue]
  /\ header = <<>>
  /\ lh = <<>> /\ outstanding = 0 /\ committing = 0
  /\ cache = [b \in Block |-> None] /\ pins = [b \in Block |-> 0]
  /\ pc = [p \in Proc |-> "idle"] /\ chan = [p \in Proc |-> None]
  /\ buf = [p \in Proc |-> None] /\ wrote = [p \in Proc |-> {}]
  /\ tail = 1 /\ boot = "read_head"
  /\ crashes = 0

-----------------------------------------------------------------------------
(* recover_from_log, run by the first process before any call.             *)
read_head ==
  /\ boot = "read_head"
  /\ lh' = header
  /\ tail' = 1 /\ boot' = "install"
  /\ UNCHANGED <<disk, outstanding, committing, bufcache, procs, crashes>>

(* One pass of install_trans: the block goes home through its buffer.      *)
install_block ==
  /\ tail <= Len(lh)
  /\ ~locked(lh[tail])
  /\ home' = [home EXCEPT ![lh[tail]] = logblock[tail]]
  /\ cache' = [cache EXCEPT ![lh[tail]] = logblock[tail]]
  /\ tail' = tail + 1
  /\ UNCHANGED <<logblock, header, struct, crashes>>

recover_install ==
  /\ boot = "install" /\ install_block
  /\ UNCHANGED <<pins, procs, boot>>

(* log->lh.n = 0 and write_head.                                           *)
clear_log ==
  /\ tail > Len(lh)
  /\ lh' = <<>> /\ header' = <<>>
  /\ UNCHANGED <<home, logblock, outstanding, committing, bufcache, chan, buf, wrote, crashes>>

recover_clear ==
  /\ boot = "install" /\ clear_log
  /\ boot' = "up"
  /\ UNCHANGED <<pc, tail>>

-----------------------------------------------------------------------------
(* Faulty variant: no space is reserved for the call itself.               *)
Bug_no_space == Len(lh) + outstanding * MAXOPBLOCKS > LOGBLOCKS

(* One pass of the loop of begin_op, under log.lock: sleep until a commit  *)
(* is over, sleep until there is space, or enter.  sleep(&log) waits on    *)
(* the address of the pointer, sleep(log) on the address of the struct.    *)
no_space == Len(lh) + (outstanding + 1) * MAXOPBLOCKS > LOGBLOCKS

begin_op_call(p) ==
  /\ boot = "up" /\ pc[p] = "idle"
  /\ goto(p, "begin_op")
  /\ UNCHANGED <<disk, struct, bufcache, chan, buf, wrote, tail, boot, crashes>>

sleep(p, c) ==
  /\ goto(p, "sleep")
  /\ chan' = [chan EXCEPT ![p] = c]
  /\ UNCHANGED <<disk, struct, bufcache, buf, wrote, tail, boot, crashes>>

begin_op_committing(p) ==
  /\ pc[p] = "begin_op" /\ committing = 1
  /\ sleep(p, "&log")

begin_op_no_space(p) ==
  /\ pc[p] = "begin_op" /\ committing = 0 /\ no_space
  /\ sleep(p, "log")

(* Faulty variant: a call may begin during a commit.                       *)
Bug_enter_committing(p) ==
  /\ pc[p] = "begin_op" /\ ~no_space
  /\ outstanding' = outstanding + 1
  /\ wrote' = [wrote EXCEPT ![p] = {}]
  /\ goto(p, "op")
  /\ UNCHANGED <<disk, lh, committing, bufcache, chan, buf, tail, boot, crashes>>

begin_op_enter(p) ==
  /\ pc[p] = "begin_op" /\ committing = 0 /\ ~no_space
  /\ outstanding' = outstanding + 1
  /\ wrote' = [wrote EXCEPT ![p] = {}]
  /\ goto(p, "op")
  /\ UNCHANGED <<disk, lh, committing, bufcache, chan, buf, tail, boot, crashes>>

(* What a call does to a block: bread, change the contents, log_write and  *)
(* brelse, with the buffer locked from the first to the last.              *)
modify(p, b, v) ==
  /\ pc[p] = "op" /\ ~locked(b)
  /\ Cardinality(wrote[p] \cup {b}) <= OpBlocks
  /\ cache' = [cache EXCEPT ![b] = v]
  /\ buf' = [buf EXCEPT ![p] = b]
  /\ goto(p, "log_write")
  /\ UNCHANGED <<disk, struct, pins, chan, wrote, tail, boot, crashes>>

(* Faulty variant: the buffer of a logged block is not pinned.             *)
Bug_log_write_no_pin(p) ==
  /\ pc[p] = "log_write"
  /\ lh' = IF buf[p] \in Range(lh) THEN lh ELSE Append(lh, buf[p])
  /\ wrote' = [wrote EXCEPT ![p] = @ \cup {buf[p]}]
  /\ goto(p, "brelse")
  /\ UNCHANGED <<disk, outstanding, committing, bufcache, chan, buf, tail, boot, crashes>>

log_write(p) ==
  /\ pc[p] = "log_write"
  /\ Len(lh) < LOGBLOCKS /\ outstanding >= 1    \* or else a panic
  /\ IF buf[p] \in Range(lh) THEN UNCHANGED <<lh, pins>>
     ELSE /\ lh' = Append(lh, buf[p])
          /\ pins' = [pins EXCEPT ![buf[p]] = @ + 1]
  /\ wrote' = [wrote EXCEPT ![p] = @ \cup {buf[p]}]
  /\ goto(p, "brelse")
  /\ UNCHANGED <<disk, outstanding, committing, cache, chan, buf, tail, boot, crashes>>

brelse(p) ==
  /\ pc[p] = "brelse"
  /\ buf' = [buf EXCEPT ![p] = None]
  /\ goto(p, "op")
  /\ UNCHANGED <<disk, struct, bufcache, chan, wrote, tail, boot, crashes>>

(* wakeup(c) together with p's own step to l.                              *)
wakeup(p, l, c) ==
  /\ pc' = [q \in Proc |-> CASE q = p -> l
                             [] q # p /\ chan[q] = c -> "begin_op"
                             [] OTHER -> pc[q]]
  /\ chan' = [q \in Proc |-> IF chan[q] = c THEN None ELSE chan[q]]

(* end_op: with calls left, wake the sleepers; the last one commits.       *)
(* It panics if a commit is going on already.                               *)
end_op_others(p) ==
  /\ pc[p] = "op" /\ outstanding > 1 /\ committing = 0
  /\ outstanding' = outstanding - 1
  /\ wrote' = [wrote EXCEPT ![p] = {}]
  /\ wakeup(p, "idle", "&log")
  /\ UNCHANGED <<disk, lh, committing, bufcache, buf, tail, boot, crashes>>

end_op_last(p) ==
  /\ pc[p] = "op" /\ outstanding = 1 /\ committing = 0
  /\ outstanding' = 0 /\ committing' = 1
  /\ wrote' = [wrote EXCEPT ![p] = {}]
  /\ tail' = 1
  /\ goto(p, IF lh # <<>> THEN "write_log" ELSE "end_commit")
  /\ UNCHANGED <<disk, lh, bufcache, chan, buf, boot, crashes>>

-----------------------------------------------------------------------------
(* commit, without log.lock.                                               *)
write_log(p) ==
  /\ pc[p] = "write_log" /\ tail <= Len(lh)
  /\ ~locked(lh[tail])
  /\ logblock' = [logblock EXCEPT ![tail] = bread(lh[tail])]
  /\ cache' = [cache EXCEPT ![lh[tail]] = bread(lh[tail])]
  /\ tail' = tail + 1
  /\ UNCHANGED <<home, header, struct, pins, procs, boot, crashes>>

write_head(p) ==
  /\ pc[p] = "write_log" /\ tail > Len(lh)
  /\ header' = lh
  /\ tail' = 1
  /\ goto(p, "install_trans")
  /\ UNCHANGED <<home, logblock, struct, bufcache, chan, buf, wrote, boot, crashes>>

install_trans(p) ==
  /\ pc[p] = "install_trans" /\ install_block
  /\ pins' = [pins EXCEPT ![lh[tail]] = @ - 1]
  /\ UNCHANGED <<procs, boot>>

erase(p) ==
  /\ pc[p] = "install_trans" /\ clear_log
  /\ goto(p, "end_commit")
  /\ UNCHANGED <<tail, boot>>

(* Faulty variant: nobody is woken after a commit.                         *)
Bug_end_commit_no_wakeup(p) ==
  /\ pc[p] = "end_commit"
  /\ committing' = 0
  /\ goto(p, "idle")
  /\ UNCHANGED <<disk, lh, outstanding, bufcache, chan, buf, wrote, tail, boot, crashes>>

end_commit(p) ==
  /\ pc[p] = "end_commit"
  /\ committing' = 0
  /\ wakeup(p, "idle", "&log")
  /\ UNCHANGED <<disk, lh, outstanding, bufcache, buf, wrote, tail, boot, crashes>>

-----------------------------------------------------------------------------
(* A process that only reads brings a block into the cache.                *)
read(b) ==
  /\ boot = "up" /\ ~locked(b) /\ cache[b] = None
  /\ cache' = [cache EXCEPT ![b] = home[b]]
  /\ UNCHANGED <<disk, struct, pins, procs, tail, boot, crashes>>

(* bget takes a buffer that nobody refers to for another block.            *)
recycle(b) ==
  /\ cache[b] # None /\ pins[b] = 0 /\ ~locked(b)
  /\ cache' = [cache EXCEPT ![b] = None]
  /\ UNCHANGED <<disk, struct, pins, procs, tail, boot, crashes>>

(* The disk stays; the kernel starts again.                                *)
crash ==
  /\ crashes < MaxCrashes
  /\ lh' = <<>> /\ outstanding' = 0 /\ committing' = 0
  /\ cache' = [b \in Block |-> None] /\ pins' = [b \in Block |-> 0]
  /\ pc' = [p \in Proc |-> "idle"] /\ chan' = [p \in Proc |-> None]
  /\ buf' = [p \in Proc |-> None] /\ wrote' = [p \in Proc |-> {}]
  /\ tail' = 1 /\ boot' = "read_head"
  /\ crashes' = crashes + 1
  /\ UNCHANGED disk

Commit(p) == write_log(p) \/ write_head(p) \/ install_trans(p) \/ erase(p) \/ end_commit(p)

EndOp(p) == end_op_others(p) \/ end_op_last(p)

BeginOp(p) == begin_op_committing(p) \/ begin_op_no_space(p) \/ begin_op_enter(p)

Next ==
  \/ read_head \/ recover_install \/ recover_clear
  \/ \E p \in Proc :
       \/ begin_op_call(p) \/ BeginOp(p)
       \/ \E b \in Block, v \in Value : modify(p, b, v)
       \/ log_write(p) \/ brelse(p) \/ EndOp(p) \/ Commit(p)
  \/ \E b \in Block : read(b) \/ recycle(b)
  \/ crash

Spec == Init /\ [][Next]_vars

(* Processes are scheduled, and every call comes to its end_op.            *)
FairSpec ==
  /\ Spec
  /\ WF_vars(read_head \/ recover_install \/ recover_clear)
  /\ \A p \in Proc : /\ WF_vars(BeginOp(p)) /\ WF_vars(log_write(p) \/ brelse(p))
                     /\ SF_vars(EndOp(p)) /\ WF_vars(Commit(p))

-----------------------------------------------------------------------------
InOp(p) == pc[p] \in {"op", "log_write", "brelse"}

TypeOK ==
  /\ home \in [Block -> Value] /\ logblock \in [1 .. LOGBLOCKS -> Value]
  /\ header \in Seq(Block) /\ lh \in Seq(Block)
  /\ outstanding \in Nat /\ committing \in 0 .. 1
  /\ cache \in [Block -> Value \cup {None}] /\ pins \in [Block -> Nat]
  /\ pc \in [Proc -> {"idle", "begin_op", "sleep", "op", "log_write", "brelse",
                      "write_log", "install_trans", "end_commit"}]
  /\ chan \in [Proc -> {"log", "&log", None}] /\ buf \in [Proc -> Block \cup {None}]
  /\ wrote \in [Proc -> SUBSET Block]
  /\ tail \in 1 .. LOGBLOCKS + 1 /\ boot \in {"read_head", "install", "up"}
  /\ crashes \in 0 .. MaxCrashes

(* begin_op keeps enough of the log free: what is logged and what the      *)
(* calls in progress may still log, MAXOPBLOCKS each less the blocks they  *)
(* have logged, fit into it, so that log_write never meets a full log      *)
(* ("too big a transaction").                                              *)
logged == {w \in Proc \X Block : w[2] \in wrote[w[1]]}

SpaceReserved ==
  /\ boot = "up" => Len(lh) + outstanding * MAXOPBLOCKS <= LOGBLOCKS + Cardinality(logged)
  /\ \A p \in Proc : pc[p] = "log_write" => Len(lh) < LOGBLOCKS /\ outstanding >= 1

(* The blocks in the log header that are not yet home are in the cache,    *)
(* pinned once each, and no other buffer is pinned: the changes cannot be  *)
(* recycled away, and no buffer stays unusable after its commit.           *)
PinsExact ==
  LET installing == \E p \in Proc : pc[p] = "install_trans"
      from       == IF installing THEN tail ELSE 1
  IN boot = "up" =>
       \A b \in Block :
         IF \E i \in from .. Len(lh) : lh[i] = b THEN pins[b] = 1 /\ cache[b] # None
                                                 ELSE pins[b] = 0

(* Both: the log has room for the calls in progress and keeps its blocks.  *)
LogExact == SpaceReserved /\ PinsExact

(* What a crash now would leave, once the log has been replayed.           *)
Recoverable ==
  [b \in Block |-> IF \E i \in DOMAIN header : header[i] = b
                   THEN logblock[CHOOSE i \in DOMAIN header : header[i] = b] ELSE home[b]]

T == INSTANCE Transactions WITH
       mem    <- IF boot = "up" THEN [b \in Block |-> bread(b)] ELSE Recoverable,
       stable <- Recoverable,
       active <- {p \in Proc : InOp(p)}

(* A crash at any point, also during recovery, leaves the blocks as they   *)
(* were at a moment without calls in progress: all of a transaction or     *)
(* nothing, and everything once the header is written.                     *)
TransactionsSpec == T!Spec

(* A call that waits for the end of a commit is woken.                     *)
CommitWaitersWake == \A p \in Proc : chan[p] = "&log" ~> chan[p] # "&log"

(* A call that waits for log space sleeps "until the last outstanding      *)
(* end_op() commits" (log.c, line 22).                                     *)
SpaceWaitersWake == \A p \in Proc : chan[p] = "log" ~> chan[p] # "log"

=============================================================================
