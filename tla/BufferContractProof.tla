------------------------- MODULE BufferContractProof -------------------------
(***************************************************************************)
(* Every step of the buffer cache is one that the contract of BlockCache   *)
(* allows, or changes nothing the contract sees, wherever the invariant of *)
(* the cache holds.                                                        *)
(***************************************************************************)
EXTENDS BufferCacheInvariant, TLAPS

USE SMTT(20)

(* What the contract sees of the cache.                                    *)
Held == {"held", "changed", "unpin"}

CopyOf(b) == LET v == {i \in cached(b) : bcache[i].valid = 1}
             IN IF v = {} THEN NoBuf ELSE bcache[CHOOSE i \in v : TRUE].data

PinsOf(b) == LET v == cached(b) IN IF v = {} THEN 0 ELSE bcache[CHOOSE i \in v : TRUE].pinned

HolderOf(b) == LET h == {p \in Use : buf_at(p) \in Held /\ buf_op[p].blockno = b}
               IN IF h = {} THEN NoBuf ELSE CHOOSE p \in h : TRUE

(* A buffer is valid when its holder has read it; it differs from the      *)
(* block on the disk only while it is pinned, or being changed.            *)
DataExact ==
  /\ \A i \in Buf : bcache[i].valid = 1 => bcache[i].blockno \in BlockNo
  /\ \A p \in Use : buf_op[p].at \in Held => bcache[buf_op[p].buf].valid = 1
  /\ \A p \in Use : buf_op[p].at = "read" => bcache[buf_op[p].buf].valid = 0
  /\ \A p \in Use : buf_op[p].at = "unpin" =>
       bcache[buf_op[p].buf].data = disk_block[bcache[buf_op[p].buf].blockno]
  /\ \A i \in Buf :
       bcache[i].valid = 1 /\ bcache[i].pinned = 0 /\
       (\A p \in Use : buf_op[p].at = "changed" => buf_op[p].buf # i)
         => bcache[i].data = disk_block[bcache[i].blockno]

(* The fields of the buffers and of the processes that the contract sees,  *)
(* after each step of p, whose buffer is m.                                *)
SameBuffers(m) ==
  \A i \in Buf \ {m} : /\ bcache'[i].blockno = bcache[i].blockno
                       /\ bcache'[i].valid = bcache[i].valid
                       /\ bcache'[i].data = bcache[i].data
                       /\ bcache'[i].pinned = bcache[i].pinned

Becomes(m, b, v, d, k) ==
  /\ bcache'[m].blockno = b /\ bcache'[m].valid = v
  /\ bcache'[m].data = d /\ bcache'[m].pinned = k
  /\ SameBuffers(m)

(* p goes on at l with the buffer it has; the others at most wake up.      *)
GoesOn(p, l) ==
  /\ buf_op'[p].at = l
  /\ \A q \in Use : buf_op'[q].buf = buf_op[q].buf /\ buf_op'[q].blockno = buf_op[q].blockno
  /\ \A q \in Use \ {p} : \/ buf_op'[q].at = buf_op[q].at
                          \/ buf_op[q].at = "asleep" /\ buf_op'[q].at = "lock"

Same(m) == Becomes(m, bcache[m].blockno, bcache[m].valid, bcache[m].data, bcache[m].pinned)

(* A buffer without references is neither pinned nor used.                 *)
FreeIsUnused ==
  \A i \in Buf : bcache[i].refcnt = 0 => /\ bcache[i].pinned = 0
                                         /\ \A q \in Use : buf_op[q].buf # i

-----------------------------------------------------------------------------
LEMMA CacheTypes ==
  BufferCacheTypeOK <=> /\ disk_block \in [BlockNo -> BlockValue]
                        /\ bcache \in [Buf -> BufRecord]
                        /\ lru \in [1 .. NBUF -> Buf]
                        /\ buf_op \in [Use -> OpRecord]
  BY Zenon DEF BufferCacheTypeOK, BufRecord, OpRecord

LEMMA OwnBuffer ==
  ASSUME BufInv, NEW p \in Use, buf_op[p].at \notin {"none", "panic"}
  PROVE  buf_op[p].buf \in Buf /\ buf_op[p].blockno \in BlockNo
  BY Zenon DEF BufInv, HasBuffer

LEMMA MyBuffer ==
  ASSUME BufInv, NEW p \in Use, buf_op[p].at \notin {"none", "drop", "panic"}
  PROVE  /\ buf_op[p].buf \in Buf /\ buf_op[p].blockno \in BlockNo
         /\ bcache[buf_op[p].buf].blockno = buf_op[p].blockno
  BY Zenon, OwnBuffer DEF BufInv, OneBufferPerBlock, buf_at, mine

LEMMA AcquireEffect ==
  ASSUME BufInv, NEW p \in Use, acquiresleep(p)
  PROVE  /\ buf_op[p].at = "lock" /\ UNCHANGED disk_block
         /\ \A q \in Use : buf_op[q].at \in InLock => buf_op[q].buf # buf_op[p].buf
         /\ Same(buf_op[p].buf)
         /\ GoesOn(p, IF bcache[buf_op[p].buf].valid = 1 THEN "held" ELSE "read")
<1> DEFINE m == buf_op[p].buf
           l == IF bcache[m].valid = 1 THEN "held" ELSE "read"
<1>1. buf_op[p].at = "lock" /\ m \in Buf /\ bcache[m].locked = NoBuf
  BY Zenon, OwnBuffer DEF acquiresleep, buf_at, mine
<1>2. bcache \in [Buf -> BufRecord] /\ buf_op \in [Use -> OpRecord]
  BY Zenon, CacheTypes DEF BufInv
<1>3. /\ bcache' = [bcache EXCEPT ![m].locked = p] /\ buf_op' = [buf_op EXCEPT ![p].at = l]
      /\ disk_block' = disk_block
  BY Zenon DEF acquiresleep, mine, buf_goto
<1> HIDE DEF l, m
<1>4. Same(m)
  BY <1>3 DEF Same, Becomes, SameBuffers
<1>5. GoesOn(p, l)
  BY Zenon, <1>2, <1>3 DEF OpRecord, GoesOn
<1>6. \A q \in Use : buf_op[q].at \in InLock => buf_op[q].buf # m
  BY <1>1, BufferCacheAssumption DEF BufInv, LockExact
<1> QED BY Zenon, <1>1, <1>3, <1>4, <1>5, <1>6 DEF l, m

LEMMA SleepEffect ==
  ASSUME BufInv, NEW p \in Use, acquiresleep_sleep(p)
  PROVE  buf_op[p].at = "lock" /\ UNCHANGED <<disk_block, bcache>> /\ GoesOn(p, "asleep")
<1>1. buf_op \in [Use -> OpRecord]
  BY Zenon, CacheTypes DEF BufInv
<1>2. buf_op' = [buf_op EXCEPT ![p].at = "asleep"]
  BY Zenon DEF acquiresleep_sleep, buf_goto
<1>3. GoesOn(p, "asleep")
  BY <1>1, <1>2 DEF GoesOn
<1> QED BY Zenon, <1>3 DEF acquiresleep_sleep, buf_at

LEMMA ReadEffect ==
  ASSUME BufInv, NEW p \in Use, bread_disk(p)
  PROVE  /\ buf_op[p].at = "read" /\ UNCHANGED disk_block
         /\ LET m == buf_op[p].buf
            IN Becomes(m, bcache[m].blockno, 1, disk_block[bcache[m].blockno], bcache[m].pinned)
         /\ GoesOn(p, "held")
<1> DEFINE m == buf_op[p].buf
           d == disk_block[bcache[m].blockno]
<1>1. buf_op[p].at = "read" /\ m \in Buf
  BY Zenon, OwnBuffer DEF bread_disk, buf_at
<1>2. bcache \in [Buf -> BufRecord] /\ buf_op \in [Use -> OpRecord]
  BY Zenon, CacheTypes DEF BufInv
<1>3. /\ bcache' = [bcache EXCEPT ![m].data = d, ![m].valid = 1]
      /\ buf_op' = [buf_op EXCEPT ![p].at = "held"] /\ disk_block' = disk_block
  BY Zenon DEF bread_disk, mine, buf_goto
<1> HIDE DEF d, m
<1>4. Becomes(m, bcache[m].blockno, 1, d, bcache[m].pinned)
  BY <1>1, <1>2, <1>3 DEF Becomes, SameBuffers
<1>5. GoesOn(p, "held")
  BY <1>2, <1>3 DEF GoesOn
<1> QED BY Zenon, <1>1, <1>3, <1>4, <1>5 DEF d, m

LEMMA ChangeEffect ==
  ASSUME BufInv, NEW p \in Use, NEW v \in BlockValue, change(p, v)
  PROVE  /\ buf_op[p].at = "held" /\ UNCHANGED disk_block
         /\ LET m == buf_op[p].buf
            IN Becomes(m, bcache[m].blockno, bcache[m].valid, v, bcache[m].pinned)
         /\ GoesOn(p, "changed")
<1> DEFINE m == buf_op[p].buf
<1>1. buf_op[p].at = "held" /\ m \in Buf
  BY Zenon, OwnBuffer DEF change, buf_at
<1>2. bcache \in [Buf -> BufRecord] /\ buf_op \in [Use -> OpRecord]
  BY Zenon, CacheTypes DEF BufInv
<1>3. /\ bcache' = [bcache EXCEPT ![m].data = v]
      /\ buf_op' = [buf_op EXCEPT ![p].at = "changed"] /\ disk_block' = disk_block
  BY Zenon DEF change, mine, buf_goto
<1> HIDE DEF m
<1>4. Becomes(m, bcache[m].blockno, bcache[m].valid, v, bcache[m].pinned)
  BY <1>1, <1>2, <1>3 DEF Becomes, SameBuffers
<1>5. GoesOn(p, "changed")
  BY Zenon, <1>2, <1>3 DEF OpRecord, GoesOn
<1> QED BY Zenon, <1>1, <1>3, <1>4, <1>5 DEF m

(* bpin leaves the buffer pinned, whether it was or not.                   *)
LEMMA PinEffect ==
  ASSUME BufInv, NEW p \in Use, bpin(p)
  PROVE  /\ buf_op[p].at = "changed" /\ UNCHANGED disk_block
         /\ LET m == buf_op[p].buf
            IN Becomes(m, bcache[m].blockno, bcache[m].valid, bcache[m].data, 1)
         /\ GoesOn(p, "held")
<1> DEFINE m == buf_op[p].buf
<1>1. buf_op[p].at = "changed" /\ m \in Buf
  BY Zenon, OwnBuffer DEF bpin, buf_at
<1>2. bcache \in [Buf -> BufRecord] /\ buf_op \in [Use -> OpRecord]
  BY Zenon, CacheTypes DEF BufInv
<1>3. /\ bcache' = IF bcache[m].pinned = 0
                   THEN [bcache EXCEPT ![m].refcnt = @ + 1, ![m].pinned = 1] ELSE bcache
      /\ buf_op' = [buf_op EXCEPT ![p].at = "held"] /\ disk_block' = disk_block
  BY Zenon DEF bpin, mine, buf_goto
<1> HIDE DEF m
<1>4. Becomes(m, bcache[m].blockno, bcache[m].valid, bcache[m].data, 1)
  <2>1. CASE bcache[m].pinned = 0
    <3>1. bcache' = [bcache EXCEPT ![m].refcnt = @ + 1, ![m].pinned = 1]
      BY Zenon, <1>3, <2>1
    <3> QED BY <1>1, <1>2, <3>1 DEF Becomes, SameBuffers
  <2>2. CASE bcache[m].pinned # 0
    <3>1. bcache' = bcache /\ bcache[m].pinned = 1
      BY <1>1, <1>2, <1>3 DEF BufRecord
    <3> QED BY Zenon, <3>1 DEF Becomes, SameBuffers
  <2> QED BY Zenon, <2>1, <2>2
<1>5. GoesOn(p, "held")
  BY <1>2, <1>3 DEF GoesOn
<1> QED BY Zenon, <1>1, <1>3, <1>4, <1>5 DEF m

LEMMA WriteEffect ==
  ASSUME BufInv, NEW p \in Use, bwrite(p)
  PROVE  LET m == buf_op[p].buf
         IN /\ buf_op[p].at \in {"held", "changed"} /\ UNCHANGED bcache
            /\ disk_block' = [disk_block EXCEPT ![bcache[m].blockno] = bcache[m].data]
            /\ GoesOn(p, IF bcache[m].pinned = 0 THEN "held" ELSE "unpin")
<1> DEFINE m == buf_op[p].buf
           l == IF bcache[m].pinned = 0 THEN "held" ELSE "unpin"
<1>1. buf_op \in [Use -> OpRecord]
  BY Zenon, CacheTypes DEF BufInv
<1>2. buf_op' = [buf_op EXCEPT ![p].at = l]
  BY Zenon DEF bwrite, mine, buf_goto
<1> HIDE DEF l
<1>3. GoesOn(p, l)
  BY <1>1, <1>2 DEF GoesOn
<1> QED BY Zenon, <1>3 DEF bwrite, buf_at, mine, l

LEMMA UnpinEffect ==
  ASSUME BufInv, NEW p \in Use, bunpin(p)
  PROVE  /\ buf_op[p].at = "unpin" /\ UNCHANGED disk_block
         /\ LET m == buf_op[p].buf
            IN Becomes(m, bcache[m].blockno, bcache[m].valid, bcache[m].data, 0)
         /\ GoesOn(p, "held")
<1> DEFINE m == buf_op[p].buf
<1>1. buf_op[p].at = "unpin" /\ m \in Buf
  BY Zenon, OwnBuffer DEF bunpin, buf_at
<1>2. bcache \in [Buf -> BufRecord] /\ buf_op \in [Use -> OpRecord]
  BY Zenon, CacheTypes DEF BufInv
<1>3. /\ bcache' = [bcache EXCEPT ![m].refcnt = @ - 1, ![m].pinned = 0]
      /\ buf_op' = [buf_op EXCEPT ![p].at = "held"] /\ disk_block' = disk_block
  BY Zenon DEF bunpin, mine, buf_goto
<1> HIDE DEF m
<1>4. Becomes(m, bcache[m].blockno, bcache[m].valid, bcache[m].data, 0)
  BY <1>1, <1>2, <1>3 DEF Becomes, SameBuffers
<1>5. GoesOn(p, "held")
  BY <1>2, <1>3 DEF GoesOn
<1> QED BY Zenon, <1>1, <1>3, <1>4, <1>5 DEF m

LEMMA UnlockEffect ==
  ASSUME BufInv, NEW p \in Use, brelse_unlock(p)
  PROVE  /\ buf_op[p].at = "held" /\ UNCHANGED disk_block
         /\ Same(buf_op[p].buf) /\ GoesOn(p, "drop")
<1> DEFINE m == buf_op[p].buf
<1>1. buf_op[p].at = "held" /\ m \in Buf
  BY Zenon, OwnBuffer DEF brelse_unlock, buf_at
<1>2. bcache \in [Buf -> BufRecord] /\ buf_op \in [Use -> OpRecord]
  BY Zenon, CacheTypes DEF BufInv
<1>3. bcache' = [bcache EXCEPT ![m].locked = NoBuf] /\ disk_block' = disk_block
  BY Zenon DEF brelse_unlock, releasesleep, mine
<1>4. GoesOn(p, "drop")
  <2>1. \A q \in Use : buf_op'[q] =
          IF q = p THEN [buf_op[p] EXCEPT !.at = "drop"]
          ELSE IF buf_op[q].at = "asleep" /\ buf_op[q].buf = m THEN [buf_op[q] EXCEPT !.at = "lock"]
               ELSE buf_op[q]
    BY Zenon DEF brelse_unlock, releasesleep, mine, buf_at
  <2> HIDE DEF m
  <2>2. ASSUME NEW q \in Use
        PROVE  /\ buf_op'[q].buf = buf_op[q].buf /\ buf_op'[q].blockno = buf_op[q].blockno
               /\ q = p => buf_op'[q].at = "drop"
               /\ q # p => \/ buf_op'[q].at = buf_op[q].at
                           \/ buf_op[q].at = "asleep" /\ buf_op'[q].at = "lock"
    <3>1. PICK r \in OpRecord : r = buf_op[q]
      BY Zenon, <1>2
    <3>2. CASE q = p
      <4>1. buf_op'[q] = [r EXCEPT !.at = "drop"]
        BY Zenon, <2>1, <3>1, <3>2
      <4> QED BY Zenon, <3>1, <3>2, <4>1 DEF OpRecord
    <3>3. CASE q # p
      <4>1. buf_op'[q] = r \/ (r.at = "asleep" /\ buf_op'[q] = [r EXCEPT !.at = "lock"])
        BY Zenon, <2>1, <3>1, <3>3
      <4>2. CASE buf_op'[q] = r
        BY Zenon, <3>1, <3>3, <4>2
      <4>3. CASE r.at = "asleep" /\ buf_op'[q] = [r EXCEPT !.at = "lock"]
        <5>1. buf_op'[q].at = "lock" /\ buf_op'[q].buf = r.buf /\ buf_op'[q].blockno = r.blockno
          BY Zenon, <4>3 DEF OpRecord
        <5> QED BY Zenon, <3>1, <3>3, <4>3, <5>1
      <4> QED BY Zenon, <4>1, <4>2, <4>3
    <3> QED BY Zenon, <3>2, <3>3
  <2> QED BY Zenon, <2>2 DEF GoesOn
<1> HIDE DEF m
<1>5. Same(m)
  BY <1>1, <1>3 DEF Same, Becomes, SameBuffers
<1> QED BY Zenon, <1>1, <1>3, <1>4, <1>5 DEF m

(* bget and the end of brelse: p is not past acquiresleep, before or after.*)
Outside(p) ==
  /\ buf_op[p].at \in {"none", "drop"} /\ buf_op'[p].at \in {"none", "lock", "panic"}
  /\ \A q \in Use \ {p} : buf_op'[q] = buf_op[q]

LEMMA HitEffect ==
  ASSUME BufInv, NEW p \in Use, NEW b \in BlockNo, bget_hit(p, b)
  PROVE  UNCHANGED disk_block /\ Outside(p) /\ \E m \in Buf : Same(m)
<1>1. bcache \in [Buf -> BufRecord] /\ buf_op \in [Use -> OpRecord]
  BY Zenon, CacheTypes DEF BufInv
<1>2. PICK m \in Buf : /\ bcache' = [bcache EXCEPT ![m].refcnt = @ + 1]
                       /\ buf_op' = [buf_op EXCEPT ![p] = [at |-> "lock", blockno |-> b, buf |-> m]]
  BY Zenon DEF bget_hit, asks, cached
<1>3. Same(m)
  BY <1>2 DEF Same, Becomes, SameBuffers
<1>4. Outside(p)
  BY DEF bget_hit, asks, buf_at, Outside
<1> QED BY Zenon, <1>3, <1>4 DEF bget_hit, asks

LEMMA UnrefEffect ==
  ASSUME BufInv, NEW p \in Use, brelse_unref(p)
  PROVE  UNCHANGED disk_block /\ Outside(p) /\ \E m \in Buf : Same(m)
<1> DEFINE m == buf_op[p].buf
<1>1. bcache \in [Buf -> BufRecord] /\ buf_op \in [Use -> OpRecord] /\ m \in Buf
  BY Zenon, CacheTypes, OwnBuffer DEF BufInv, brelse_unref, buf_at
<1>2. /\ bcache' = [bcache EXCEPT ![m].refcnt = @ - 1]
      /\ buf_op' = [buf_op EXCEPT ![p] = [at |-> "none", blockno |-> NoBuf, buf |-> 0]]
  BY Zenon DEF brelse_unref, mine, no_buf
<1> HIDE DEF m
<1>3. Same(m)
  BY Zenon, <1>1, <1>2 DEF BufRecord, Same, Becomes, SameBuffers
<1>4. Outside(p)
  BY <1>1, <1>2 DEF brelse_unref, buf_at, Outside
<1> QED BY Zenon, <1>1, <1>3, <1>4 DEF brelse_unref

LEMMA PanicEffect ==
  ASSUME BufInv, NEW p \in Use, NEW b \in BlockNo, bget_panic(p, b)
  PROVE  UNCHANGED disk_block /\ Outside(p) /\ Same(0)
<1>1. buf_op \in [Use -> OpRecord] /\ buf_op[p].at = "none"
  BY Zenon, CacheTypes DEF BufInv, bget_panic, asks, buf_at
<1>2. buf_op' = [buf_op EXCEPT ![p].at = "panic"] /\ bcache' = bcache
  BY Zenon DEF bget_panic, buf_goto
<1>3. buf_op'[p].at = "panic" /\ \A q \in Use \ {p} : buf_op'[q] = buf_op[q]
  BY Zenon, <1>1, <1>2 DEF OpRecord
<1>4. Outside(p)
  BY Zenon, <1>1, <1>3 DEF Outside
<1>5. Same(0)
  BY Zenon, <1>2 DEF Same, Becomes, SameBuffers
<1> QED BY Zenon, <1>4, <1>5 DEF bget_panic

(* The buffer that is recycled is nobody's, and its new block had none.    *)
LEMMA RecycleEffect ==
  ASSUME BufInv, FreeIsUnused, NEW p \in Use, NEW b \in BlockNo, bget_recycle(p, b)
  PROVE  /\ UNCHANGED disk_block /\ Outside(p)
         /\ \A i \in Buf : bcache[i].blockno # b
         /\ \E m \in Buf : /\ Becomes(m, b, 0, BlockZero, 0)
                           /\ bcache[m].pinned = 0
                           /\ \A q \in Use : buf_op[q].buf # m
<1>1. /\ bcache \in [Buf -> BufRecord] /\ buf_op \in [Use -> OpRecord]
      /\ lru \in [1 .. NBUF -> Buf]
  BY Zenon, CacheTypes DEF BufInv
<1>2. PICK m \in Buf :
        /\ bcache[m].refcnt = 0
        /\ bcache' = [bcache EXCEPT ![m].blockno = b, ![m].valid = 0, ![m].refcnt = 1, ![m].data = BlockZero]
        /\ buf_op' = [buf_op EXCEPT ![p] = [at |-> "lock", blockno |-> b, buf |-> m]]
  BY Zenon, <1>1 DEF bget_recycle, asks, free_bufs
<1>3. bcache[m].pinned = 0 /\ \A q \in Use : buf_op[q].buf # m
  BY Zenon, <1>2 DEF FreeIsUnused
<1>4. Becomes(m, b, 0, BlockZero, 0)
  BY <1>1, <1>2, <1>3 DEF BufRecord, SameBuffers
<1>5. Outside(p)
  BY DEF bget_recycle, asks, buf_at, Outside
<1> QED BY Zenon, <1>3, <1>4, <1>5 DEF bget_recycle, asks, cached

-----------------------------------------------------------------------------
(* Two processes past acquiresleep have different buffers.                 *)
LEMMA OneHolder ==
  ASSUME BufInv, NEW p \in Use, NEW q \in Use, p # q,
         buf_op[p].at \in InLock, buf_op[q].at \in InLock
  PROVE  buf_op[p].buf # buf_op[q].buf /\ buf_op[p].blockno # buf_op[q].blockno
<1>1. /\ buf_op[p].buf \in Buf /\ bcache[buf_op[p].buf].blockno = buf_op[p].blockno
      /\ buf_op[q].buf \in Buf /\ bcache[buf_op[q].buf].blockno = buf_op[q].blockno
      /\ buf_op[p].blockno \in BlockNo
  BY Zenon, MyBuffer DEF InLock
<1>2. buf_op[p].buf # buf_op[q].buf
  BY <1>1 DEF BufInv, LockExact
<1> QED BY Zenon, <1>1, <1>2, BufferCacheAssumption DEF BufInv, OneBufferPerBlock

LEMMA DataInit == BufferCacheInit => DataExact
  BY DEF BufferCacheInit, binit, no_buf, DataExact, Held

(* The steps in which nothing that the contract sees of a buffer changes.  *)
LEMMA DataSame ==
  ASSUME BufInv, DataExact, UNCHANGED disk_block, NEW m, Same(m),
         NEW p \in Use,
         \/ Outside(p)
         \/ GoesOn(p, "asleep") /\ buf_op[p].at = "lock"
         \/ GoesOn(p, "drop") /\ buf_op[p].at = "held"
         \/ GoesOn(p, "held") /\ buf_op[p].at = "lock" /\ bcache[buf_op[p].buf].valid = 1
         \/ GoesOn(p, "read") /\ buf_op[p].at = "lock" /\ bcache[buf_op[p].buf].valid = 0
  PROVE  DataExact'
<1>1. \A i \in Buf : /\ bcache'[i].blockno = bcache[i].blockno
                     /\ bcache'[i].valid = bcache[i].valid
                     /\ bcache'[i].data = bcache[i].data
                     /\ bcache'[i].pinned = bcache[i].pinned
  BY Zenon DEF Same, Becomes, SameBuffers
<1>2. \A q \in Use : buf_op[q].at \notin {"none", "drop", "panic"} => buf_op[q].buf \in Buf
  BY Zenon, OwnBuffer
<1>3. \A q \in Use : buf_op'[q].at \in InLock =>
        /\ buf_op'[q].buf = buf_op[q].buf /\ buf_op[q].at \notin {"none", "drop", "panic"}
        /\ \/ buf_op[q].at = buf_op'[q].at
           \/ buf_op'[q].at = "held" /\ bcache[buf_op[q].buf].valid = 1
           \/ buf_op'[q].at = "read" /\ bcache[buf_op[q].buf].valid = 0
  BY Zenon DEF Outside, GoesOn, InLock
<1>4. \A q \in Use : buf_op[q].at = "changed" => buf_op'[q].at = "changed" /\ buf_op'[q].buf = buf_op[q].buf
  BY Zenon DEF Outside, GoesOn
<1>5. /\ \A i \in Buf : bcache'[i].valid = 1 => bcache'[i].blockno \in BlockNo
      /\ \A q \in Use : buf_op'[q].at \in Held => bcache'[buf_op'[q].buf].valid = 1
      /\ \A q \in Use : buf_op'[q].at = "read" => bcache'[buf_op'[q].buf].valid = 0
  BY <1>1, <1>2, <1>3 DEF DataExact, Held, InLock
<1>6. \A q \in Use : buf_op'[q].at = "unpin" =>
        bcache'[buf_op'[q].buf].data = disk_block'[bcache'[buf_op'[q].buf].blockno]
  BY <1>1, <1>2, <1>3 DEF DataExact, InLock
<1>7. \A i \in Buf :
        bcache'[i].valid = 1 /\ bcache'[i].pinned = 0 /\
        (\A q \in Use : buf_op'[q].at = "changed" => buf_op'[q].buf # i)
          => bcache'[i].data = disk_block'[bcache'[i].blockno]
  BY <1>1, <1>4 DEF DataExact
<1> QED BY Zenon, <1>5, <1>6, <1>7 DEF DataExact

(* The steps of the process that holds the buffer: it is valid, and equal  *)
(* to the block on the disk unless it is now being changed or is pinned.   *)
LEMMA DataHolder ==
  ASSUME BufInv, DataExact, NEW p \in Use, buf_op[p].at \in InLock,
         NEW m, m = buf_op[p].buf, NEW l \in Held, NEW d, NEW k, GoesOn(p, l),
         Becomes(m, bcache[m].blockno, 1, d, k),
         \A i \in Buf \ {m} : disk_block'[bcache[i].blockno] = disk_block[bcache[i].blockno],
         l = "unpin" \/ (k = 0 /\ l = "held") => d = disk_block'[bcache[m].blockno]
  PROVE  DataExact'
<1>1. m \in Buf /\ bcache[m].blockno \in BlockNo
  BY Zenon, MyBuffer DEF InLock
<1>2. \A q \in Use : buf_op[q].at \notin {"none", "drop", "panic"} => buf_op[q].buf \in Buf
  BY Zenon, OwnBuffer
<1>3. \A q \in Use \ {p} : buf_op'[q].at \in InLock =>
        /\ buf_op'[q].buf = buf_op[q].buf /\ buf_op[q].at = buf_op'[q].at
        /\ buf_op[q].buf # m /\ buf_op[q].buf \in Buf
  BY Zenon, <1>2, OneHolder DEF GoesOn, InLock
<1>4. \A i \in Buf \ {m} : /\ bcache'[i].blockno = bcache[i].blockno
                           /\ bcache'[i].valid = bcache[i].valid
                           /\ bcache'[i].data = bcache[i].data
                           /\ bcache'[i].pinned = bcache[i].pinned
  BY Zenon DEF Becomes, SameBuffers
<1>5. /\ bcache'[m].blockno = bcache[m].blockno /\ bcache'[m].valid = 1
      /\ bcache'[m].data = d /\ bcache'[m].pinned = k
      /\ buf_op'[p].at = l /\ buf_op'[p].buf = m
  BY Zenon DEF Becomes, GoesOn
<1>6. \A i \in Buf : bcache'[i].valid = 1 => bcache'[i].blockno \in BlockNo
  BY <1>1, <1>4, <1>5 DEF DataExact
<1>7. /\ \A q \in Use : buf_op'[q].at \in Held => bcache'[buf_op'[q].buf].valid = 1
      /\ \A q \in Use : buf_op'[q].at = "read" => bcache'[buf_op'[q].buf].valid = 0
  BY <1>3, <1>4, <1>5 DEF DataExact, Held, InLock
<1>8. \A q \in Use : buf_op'[q].at = "unpin" =>
        bcache'[buf_op'[q].buf].data = disk_block'[bcache'[buf_op'[q].buf].blockno]
  BY <1>3, <1>4, <1>5 DEF DataExact, InLock
<1>9. ASSUME NEW i \in Buf, bcache'[i].valid = 1, bcache'[i].pinned = 0,
             \A q \in Use : buf_op'[q].at = "changed" => buf_op'[q].buf # i
      PROVE  bcache'[i].data = disk_block'[bcache'[i].blockno]
  <2>1. CASE i = m
    BY Zenon, <1>5, <1>9, <2>1 DEF Held
  <2>2. CASE i # m
    <3>1. \A q \in Use : buf_op[q].at = "changed" => buf_op[q].buf # i
      BY <1>9, <2>2 DEF GoesOn
    <3>2. bcache[i].data = disk_block[bcache[i].blockno]
      BY Zenon, <1>4, <1>9, <2>2, <3>1 DEF DataExact
    <3> QED BY <1>4, <2>2, <3>2
  <2> QED BY Zenon, <2>1, <2>2
<1> QED BY Zenon, <1>6, <1>7, <1>8, <1>9 DEF DataExact

LEMMA DataRecycle ==
  ASSUME BufInv, FreeIsUnused, DataExact, NEW p \in Use, NEW b \in BlockNo, bget_recycle(p, b)
  PROVE  DataExact'
<1>1. /\ UNCHANGED disk_block /\ Outside(p)
  BY Zenon, RecycleEffect
<1>2. PICK m \in Buf : /\ Becomes(m, b, 0, BlockZero, 0)
                       /\ \A q \in Use : buf_op[q].buf # m
  BY Zenon, RecycleEffect
<1>3. \A q \in Use : buf_op'[q].at \in InLock =>
        buf_op'[q] = buf_op[q] /\ buf_op[q].buf \in Buf /\ buf_op[q].buf # m
  BY Zenon, <1>1, <1>2, OwnBuffer DEF Outside, InLock
<1>4. \A q \in Use : buf_op[q].at = "changed" => buf_op'[q] = buf_op[q]
  BY Zenon, <1>1 DEF Outside
<1>5. bcache'[m].valid = 0 /\ \A i \in Buf \ {m} : /\ bcache'[i].blockno = bcache[i].blockno
                                                   /\ bcache'[i].valid = bcache[i].valid
                                                   /\ bcache'[i].data = bcache[i].data
                                                   /\ bcache'[i].pinned = bcache[i].pinned
  BY Zenon, <1>2 DEF Becomes, SameBuffers
<1>6. /\ \A i \in Buf : bcache'[i].valid = 1 => bcache'[i].blockno \in BlockNo
      /\ \A q \in Use : buf_op'[q].at \in Held => bcache'[buf_op'[q].buf].valid = 1
      /\ \A q \in Use : buf_op'[q].at = "read" => bcache'[buf_op'[q].buf].valid = 0
  BY <1>3, <1>5 DEF DataExact, Held, InLock
<1>7. \A q \in Use : buf_op'[q].at = "unpin" =>
        bcache'[buf_op'[q].buf].data = disk_block'[bcache'[buf_op'[q].buf].blockno]
  BY <1>1, <1>3, <1>5 DEF DataExact, InLock
<1>8. \A i \in Buf :
        bcache'[i].valid = 1 /\ bcache'[i].pinned = 0 /\
        (\A q \in Use : buf_op'[q].at = "changed" => buf_op'[q].buf # i)
          => bcache'[i].data = disk_block'[bcache'[i].blockno]
  BY <1>1, <1>4, <1>5 DEF DataExact
<1> QED BY Zenon, <1>6, <1>7, <1>8 DEF DataExact

LEMMA DataNext ==
  ASSUME BufInv, FreeIsUnused, DataExact, [BufferCacheNext]_bufVars PROVE DataExact'
<1> USE DEF InLock, Held
<1>1. CASE UNCHANGED bufVars
  BY Zenon, <1>1 DEF bufVars, DataExact
<1>2. ASSUME NEW p \in Use, acquiresleep(p) PROVE DataExact'
  <2>1. bcache[buf_op[p].buf].valid \in {0, 1}
    BY <1>2, AcquireEffect, OwnBuffer, CacheTypes DEF BufInv, BufRecord
  <2> QED BY Zenon, <1>2, <2>1, AcquireEffect, DataSame
<1>3. ASSUME NEW p \in Use, acquiresleep_sleep(p) PROVE DataExact'
  <2>1. Same(buf_op[p].buf)
    BY Zenon, <1>3, SleepEffect DEF Same, Becomes, SameBuffers
  <2> QED BY Zenon, <1>3, <2>1, SleepEffect, DataSame
<1>4. ASSUME NEW p \in Use, brelse_unlock(p) PROVE DataExact'
  BY Zenon, <1>4, UnlockEffect, DataSame
<1>5. ASSUME NEW p \in Use, brelse_unref(p) PROVE DataExact'
  BY Zenon, <1>5, UnrefEffect, DataSame
<1>6. ASSUME NEW p \in Use, NEW b \in BlockNo, bget_hit(p, b) PROVE DataExact'
  BY Zenon, <1>6, HitEffect, DataSame
<1>12. ASSUME NEW p \in Use, NEW b \in BlockNo, bget_panic(p, b) PROVE DataExact'
  BY Zenon, <1>12, PanicEffect, DataSame
<1>7. ASSUME NEW p \in Use, bread_disk(p) PROVE DataExact'
  BY Zenon, <1>7, ReadEffect, DataHolder
<1>8. ASSUME NEW p \in Use, NEW v \in BlockValue, change(p, v) PROVE DataExact'
  <2>1. bcache[buf_op[p].buf].valid = 1
    BY Zenon, <1>8, ChangeEffect DEF DataExact
  <2> QED BY Zenon, <1>8, <2>1, ChangeEffect, DataHolder
<1>9. ASSUME NEW p \in Use, bpin(p) PROVE DataExact'
  <2>1. bcache[buf_op[p].buf].valid = 1
    BY Zenon, <1>9, PinEffect DEF DataExact
  <2>2. /\ buf_op[p].at = "changed" /\ GoesOn(p, "held") /\ UNCHANGED disk_block
        /\ LET m == buf_op[p].buf IN Becomes(m, bcache[m].blockno, 1, bcache[m].data, 1)
    BY Zenon, <1>9, <2>1, PinEffect
  <2>3. PICK k : k = 1 /\ k # 0
    OBVIOUS
  <2>4. LET m == buf_op[p].buf IN Becomes(m, bcache[m].blockno, 1, bcache[m].data, k)
    BY Zenon, <2>2, <2>3
  <2> QED BY Zenon, <2>2, <2>3, DataHolder
<1>10. ASSUME NEW p \in Use, bunpin(p) PROVE DataExact'
  <2>1. /\ bcache[buf_op[p].buf].valid = 1
        /\ bcache[buf_op[p].buf].data = disk_block[bcache[buf_op[p].buf].blockno]
    BY Zenon, <1>10, UnpinEffect DEF DataExact
  <2> QED BY Zenon, <1>10, <2>1, UnpinEffect, DataHolder
<1>11. ASSUME NEW p \in Use, bwrite(p) PROVE DataExact'
  <2> DEFINE m == buf_op[p].buf
             l == IF bcache[m].pinned = 0 THEN "held" ELSE "unpin"
  <2>1. /\ buf_op[p].at \in {"held", "changed"} /\ bcache' = bcache /\ GoesOn(p, l)
        /\ disk_block' = [disk_block EXCEPT ![bcache[m].blockno] = bcache[m].data]
    BY Zenon, <1>11, WriteEffect
  <2>2. bcache[m].valid = 1 /\ m \in Buf /\ bcache[m].blockno \in BlockNo
    BY Zenon, <2>1, MyBuffer DEF DataExact
  <2>3. Becomes(m, bcache[m].blockno, 1, bcache[m].data, bcache[m].pinned)
    BY Zenon, <2>1, <2>2 DEF Becomes, SameBuffers
  <2>4. disk_block \in [BlockNo -> BlockValue]
    BY Zenon, CacheTypes DEF BufInv
  <2>5. \A i \in Buf \ {m} : disk_block'[bcache[i].blockno] = disk_block[bcache[i].blockno]
    <3>1. \A i \in Buf \ {m} : bcache[i].blockno # bcache[m].blockno
      BY Zenon, <2>2, BufferCacheAssumption DEF BufInv, OneBufferPerBlock
    <3> HIDE DEF m
    <3> QED BY <2>1, <3>1
  <2>6. disk_block'[bcache[m].blockno] = bcache[m].data
    BY Zenon, <2>1, <2>2, <2>4
  <2>7. l \in Held
    OBVIOUS
  <2> HIDE DEF l
  <2> QED BY Zenon, <2>1, <2>3, <2>5, <2>6, <2>7, DataHolder
<1> QED BY Zenon, <1>1, <1>2, <1>3, <1>4, <1>5, <1>6, <1>7, <1>8, <1>9, <1>10, <1>11,
    <1>12, DataRecycle DEF BufferCacheNext, buf_step, panic_loop

-----------------------------------------------------------------------------
(* What the contract sees, buffer by buffer.                               *)
Seen ==
  /\ \A i \in Buf : bcache[i].blockno \in BlockNo =>
       /\ CopyOf(bcache[i].blockno) = IF bcache[i].valid = 1 THEN bcache[i].data ELSE NoBuf
       /\ PinsOf(bcache[i].blockno) = bcache[i].pinned
  /\ \A b \in BlockNo : (\A i \in Buf : bcache[i].blockno # b) => CopyOf(b) = NoBuf /\ PinsOf(b) = 0
  /\ \A p \in Use : buf_op[p].at \in Held => HolderOf(buf_op[p].blockno) = p
  /\ \A b \in BlockNo :
       (\A p \in Use : buf_op[p].at \in Held => buf_op[p].blockno # b) => HolderOf(b) = NoBuf

LEMMA SeenNow == BufInv => Seen
<1> SUFFICES ASSUME BufInv PROVE Seen
  OBVIOUS
<1>1. ASSUME NEW i \in Buf, bcache[i].blockno \in BlockNo
      PROVE  /\ CopyOf(bcache[i].blockno) = IF bcache[i].valid = 1 THEN bcache[i].data ELSE NoBuf
             /\ PinsOf(bcache[i].blockno) = bcache[i].pinned
  <2> DEFINE b == bcache[i].blockno
             v == {j \in cached(b) : bcache[j].valid = 1}
  <2>1. cached(b) = {i}
    BY Zenon, <1>1, BufferCacheAssumption DEF cached, BufInv, OneBufferPerBlock
  <2>2. v = IF bcache[i].valid = 1 THEN {i} ELSE {}
    BY Zenon, <2>1
  <2>3. (CHOOSE j \in {i} : TRUE) = i
    OBVIOUS
  <2>4. CopyOf(b) = IF v = {} THEN NoBuf ELSE bcache[CHOOSE j \in v : TRUE].data
    BY Zenon DEF CopyOf
  <2>5. PinsOf(b) = IF cached(b) = {} THEN 0 ELSE bcache[CHOOSE j \in cached(b) : TRUE].pinned
    BY Zenon DEF PinsOf
  <2> HIDE DEF b, v
  <2>6. PinsOf(b) = bcache[i].pinned
    BY Zenon, <2>1, <2>5
  <2>7. CopyOf(b) = IF bcache[i].valid = 1 THEN bcache[i].data ELSE NoBuf
    <3>1. CASE bcache[i].valid = 1
      <4>1. v = {i}
        BY Zenon, <2>2, <3>1
      <4> QED BY Zenon, <2>4, <3>1, <4>1
    <3>2. CASE bcache[i].valid # 1
      BY Zenon, <2>2, <2>4
    <3> QED BY Zenon, <3>1, <3>2
  <2> QED BY Zenon, <2>6, <2>7 DEF b
<1>2. \A b \in BlockNo : (\A i \in Buf : bcache[i].blockno # b) => CopyOf(b) = NoBuf /\ PinsOf(b) = 0
  BY Zenon DEF CopyOf, PinsOf, cached
<1>3. ASSUME NEW p \in Use, buf_op[p].at \in Held PROVE HolderOf(buf_op[p].blockno) = p
  <2> DEFINE h == {q \in Use : buf_at(q) \in Held /\ buf_op[q].blockno = buf_op[p].blockno}
  <2>1. h = {p}
    BY Zenon, <1>3, OneHolder DEF Held, InLock, buf_at
  <2>2. (CHOOSE q \in {p} : TRUE) = p
    OBVIOUS
  <2>3. HolderOf(buf_op[p].blockno) = IF h = {} THEN NoBuf ELSE CHOOSE q \in h : TRUE
    BY Zenon DEF HolderOf
  <2> HIDE DEF h
  <2> QED BY Zenon, <2>1, <2>3
<1>4. \A b \in BlockNo :
        (\A p \in Use : buf_op[p].at \in Held => buf_op[p].blockno # b) => HolderOf(b) = NoBuf
  BY Zenon DEF HolderOf, buf_at
<1> QED BY Zenon, <1>1, <1>2, <1>3, <1>4 DEF Seen

LEMMA SeenNext == BufInv' => Seen'
  BY SeenNow, PTL

(* The effect of a step on the copy and the pins of a block, ...           *)
LEMMA SeenSame ==
  ASSUME Seen, Seen', NEW m, Same(m)
  PROVE  \A b \in BlockNo : CopyOf(b)' = CopyOf(b) /\ PinsOf(b)' = PinsOf(b)
<1>1. \A i \in Buf : /\ bcache'[i].blockno = bcache[i].blockno
                     /\ bcache'[i].valid = bcache[i].valid
                     /\ bcache'[i].data = bcache[i].data
                     /\ bcache'[i].pinned = bcache[i].pinned
  BY Zenon DEF Same, Becomes, SameBuffers
<1> SUFFICES ASSUME NEW b \in BlockNo PROVE CopyOf(b)' = CopyOf(b) /\ PinsOf(b)' = PinsOf(b)
  OBVIOUS
<1>2. CASE \E i \in Buf : bcache[i].blockno = b
  BY <1>1, <1>2 DEF Seen
<1>3. CASE \A i \in Buf : bcache[i].blockno # b
  BY <1>1 DEF Seen
<1> QED BY Zenon, <1>2, <1>3

LEMMA SeenOne ==
  ASSUME Seen, Seen', NEW m \in Buf, NEW c \in BlockNo, bcache[m].blockno = c,
         NEW v, NEW d, NEW k, Becomes(m, c, v, d, k)
  PROVE  /\ CopyOf(c)' = (IF v = 1 THEN d ELSE NoBuf) /\ PinsOf(c)' = k
         /\ \A b \in BlockNo \ {c} : CopyOf(b)' = CopyOf(b) /\ PinsOf(b)' = PinsOf(b)
<1>1. \A i \in Buf \ {m} : /\ bcache'[i].blockno = bcache[i].blockno
                           /\ bcache'[i].valid = bcache[i].valid
                           /\ bcache'[i].data = bcache[i].data
                           /\ bcache'[i].pinned = bcache[i].pinned
  BY Zenon DEF Becomes, SameBuffers
<1>2. /\ bcache'[m].blockno = c /\ bcache'[m].valid = v
      /\ bcache'[m].data = d /\ bcache'[m].pinned = k
  BY Zenon DEF Becomes
<1>3. CopyOf(c)' = (IF v = 1 THEN d ELSE NoBuf) /\ PinsOf(c)' = k
  BY <1>2 DEF Seen
<1>4. ASSUME NEW b \in BlockNo \ {c} PROVE CopyOf(b)' = CopyOf(b) /\ PinsOf(b)' = PinsOf(b)
  <2>1. CASE \E i \in Buf \ {m} : bcache[i].blockno = b
    BY <1>1, <2>1 DEF Seen
  <2>2. CASE \A i \in Buf \ {m} : bcache[i].blockno # b
    BY <1>1, <1>2 DEF Seen
  <2> QED BY Zenon, <2>1, <2>2
<1> QED BY Zenon, <1>3, <1>4

(* ... and on who holds it.                                                *)
LEMMA HolderSame ==
  ASSUME Seen, Seen', NEW p \in Use,
         \/ Outside(p)
         \/ \E l : GoesOn(p, l) /\ (l \in Held <=> buf_op[p].at \in Held)
  PROVE  \A b \in BlockNo : HolderOf(b)' = HolderOf(b)
<1>1. \A q \in Use : /\ buf_op'[q].at \in Held <=> buf_op[q].at \in Held
                     /\ buf_op[q].at \in Held => buf_op'[q].blockno = buf_op[q].blockno
  BY Zenon DEF Outside, GoesOn, Held
<1> SUFFICES ASSUME NEW b \in BlockNo PROVE HolderOf(b)' = HolderOf(b)
  OBVIOUS
<1>2. CASE \E q \in Use : buf_op[q].at \in Held /\ buf_op[q].blockno = b
  BY <1>1 DEF Seen
<1>3. CASE \A q \in Use : buf_op[q].at \in Held => buf_op[q].blockno # b
  BY <1>1 DEF Seen
<1> QED BY Zenon, <1>2, <1>3

LEMMA HolderGains ==
  ASSUME Seen, Seen', NEW p \in Use, NEW c \in BlockNo, c = buf_op[p].blockno,
         NEW l \in Held, GoesOn(p, l), buf_op[p].at \notin Held
  PROVE  /\ HolderOf(c) = NoBuf /\ HolderOf(c)' = p
         /\ \A b \in BlockNo \ {c} : HolderOf(b)' = HolderOf(b)
<1>1. \A q \in Use : /\ buf_op'[q].blockno = buf_op[q].blockno
                     /\ q # p => (buf_op'[q].at \in Held <=> buf_op[q].at \in Held)
  BY Zenon DEF GoesOn, Held
<1>2. buf_op'[p].at \in Held /\ buf_op'[p].blockno = c
  BY Zenon DEF GoesOn
<1>3. HolderOf(c)' = p
  BY Zenon, <1>2 DEF Seen
<1>4. \A q \in Use : buf_op[q].at \in Held => buf_op[q].blockno # c
  BY <1>1, <1>3 DEF Seen
<1>5. HolderOf(c) = NoBuf
  BY Zenon, <1>4 DEF Seen
<1>6. ASSUME NEW b \in BlockNo \ {c} PROVE HolderOf(b)' = HolderOf(b)
  <2>1. CASE \E q \in Use : buf_op[q].at \in Held /\ buf_op[q].blockno = b
    BY <1>1 DEF Seen
  <2>2. CASE \A q \in Use : buf_op[q].at \in Held => buf_op[q].blockno # b
    BY <1>1 DEF Seen
  <2> QED BY Zenon, <2>1, <2>2
<1> QED BY Zenon, <1>3, <1>5, <1>6

LEMMA HolderLoses ==
  ASSUME Seen, Seen', NEW p \in Use, NEW c \in BlockNo, c = buf_op[p].blockno,
         NEW l, l \notin Held, GoesOn(p, l), buf_op[p].at \in Held
  PROVE  /\ HolderOf(c) = p /\ HolderOf(c)' = NoBuf
         /\ \A b \in BlockNo \ {c} : HolderOf(b)' = HolderOf(b)
<1>1. \A q \in Use : /\ buf_op'[q].blockno = buf_op[q].blockno
                     /\ q # p => (buf_op'[q].at \in Held <=> buf_op[q].at \in Held)
  BY Zenon DEF GoesOn, Held
<1>2. buf_op'[p].at \notin Held
  BY Zenon DEF GoesOn
<1>3. HolderOf(c) = p
  BY Zenon DEF Seen
<1>4. \A q \in Use : buf_op'[q].at \in Held => buf_op'[q].blockno # c
  BY <1>1, <1>2 DEF Seen
<1>5. HolderOf(c)' = NoBuf
  BY Zenon, <1>4 DEF Seen
<1>6. ASSUME NEW b \in BlockNo \ {c} PROVE HolderOf(b)' = HolderOf(b)
  <2>1. CASE \E q \in Use : buf_op[q].at \in Held /\ buf_op[q].blockno = b
    BY <1>1 DEF Seen
  <2>2. CASE \A q \in Use : buf_op[q].at \in Held => buf_op[q].blockno # b
    BY <1>1 DEF Seen
  <2> QED BY Zenon, <2>1, <2>2
<1> QED BY Zenon, <1>3, <1>5, <1>6

-----------------------------------------------------------------------------
copies  == [b \in BlockNo |-> CopyOf(b)]
pinsAll == [b \in BlockNo |-> PinsOf(b)]
holders == [b \in BlockNo |-> HolderOf(b)]

(* The mapping of the contract, by these names.                            *)
LEMMA ContractNames ==
  /\ Contract!cacheVars = <<disk_block, copies, pinsAll, holders>>
  /\ Contract!CacheInit <=>
       /\ disk_block = [b \in BlockNo |-> BlockZero] /\ copies = [b \in BlockNo |-> NoBuf]
       /\ pinsAll = [b \in BlockNo |-> 0] /\ holders = [b \in BlockNo |-> NoBuf]
  BY Zenon DEF Contract!cacheVars, Contract!CacheInit, copies, pinsAll, holders, CopyOf,
     PinsOf, HolderOf, Held

LEMMA ContractStutter ==
  ASSUME UNCHANGED <<disk_block, copies, pinsAll, holders>>
  PROVE  UNCHANGED Contract!cacheVars
  BY Zenon DEF Contract!cacheVars, copies, pinsAll, holders, CopyOf, PinsOf, HolderOf,
     Held

LEMMA ContractActions ==
  ASSUME NEW p \in Use, NEW c \in BlockNo
  PROVE  /\ Contract!Acquire(p, c) <=>
              /\ holders[c] = NoBuf /\ holders' = [holders EXCEPT ![c] = p]
              /\ copies' = [copies EXCEPT ![c] = IF @ = NoBuf THEN disk_block[c] ELSE @]
              /\ UNCHANGED <<disk_block, pinsAll>>
         /\ \A v : Contract!Change(p, c, v) <=>
              /\ holders[c] = p /\ copies' = [copies EXCEPT ![c] = v]
              /\ UNCHANGED <<disk_block, pinsAll, holders>>
         /\ Contract!Pin(p, c) <=>
              /\ holders[c] = p /\ pinsAll' = [pinsAll EXCEPT ![c] = @ + 1]
              /\ UNCHANGED <<disk_block, copies, holders>>
         /\ Contract!Unpin(p, c) <=>
              /\ holders[c] = p /\ pinsAll[c] > 0 /\ pinsAll' = [pinsAll EXCEPT ![c] = @ - 1]
              /\ UNCHANGED <<disk_block, copies, holders>>
         /\ Contract!WriteHome(p, c) <=>
              /\ holders[c] = p /\ disk_block' = [disk_block EXCEPT ![c] = copies[c]]
              /\ UNCHANGED <<copies, pinsAll, holders>>
         /\ Contract!Release(p, c) <=>
              /\ holders[c] = p /\ holders' = [holders EXCEPT ![c] = NoBuf]
              /\ UNCHANGED <<disk_block, copies, pinsAll>>
         /\ Contract!Drop(c) <=>
              /\ holders[c] = NoBuf /\ pinsAll[c] = 0 /\ copies[c] = disk_block[c]
              /\ copies' = [copies EXCEPT ![c] = NoBuf]
              /\ UNCHANGED <<disk_block, pinsAll, holders>>
  BY Zenon DEF Contract!Acquire, Contract!Change, Contract!Pin, Contract!Unpin,
     Contract!WriteHome, Contract!Release, Contract!Drop, copies, pinsAll, holders, CopyOf,
     PinsOf, HolderOf, Held

(* The functions of the contract, from what happens to each block.         *)
LEMMA Keeps ==
  /\ (\A b \in BlockNo : CopyOf(b)' = CopyOf(b)) => UNCHANGED copies
  /\ (\A b \in BlockNo : PinsOf(b)' = PinsOf(b)) => UNCHANGED pinsAll
  /\ (\A b \in BlockNo : HolderOf(b)' = HolderOf(b)) => UNCHANGED holders
  BY Zenon DEF copies, pinsAll, holders

LEMMA Updates ==
  ASSUME NEW c \in BlockNo
  PROVE  /\ \A v : (CopyOf(c)' = v /\ \A b \in BlockNo \ {c} : CopyOf(b)' = CopyOf(b))
                     => copies' = [copies EXCEPT ![c] = v]
         /\ \A v : (PinsOf(c)' = v /\ \A b \in BlockNo \ {c} : PinsOf(b)' = PinsOf(b))
                     => pinsAll' = [pinsAll EXCEPT ![c] = v]
         /\ \A v : (HolderOf(c)' = v /\ \A b \in BlockNo \ {c} : HolderOf(b)' = HolderOf(b))
                     => holders' = [holders EXCEPT ![c] = v]
         /\ copies[c] = CopyOf(c) /\ pinsAll[c] = PinsOf(c) /\ holders[c] = HolderOf(c)
  BY Zenon DEF copies, pinsAll, holders

Implements == UNCHANGED Contract!cacheVars \/ Contract!CacheNext

(* Steps that the contract does not see.                                   *)
LEMMA ImplStutter ==
  ASSUME Seen, Seen', UNCHANGED disk_block, NEW m, Same(m), NEW p \in Use,
         \/ Outside(p)
         \/ \E l : GoesOn(p, l) /\ (l \in Held <=> buf_op[p].at \in Held)
  PROVE  Implements
  BY Zenon, SeenSame, HolderSame, Keeps, ContractStutter DEF Implements

(* The block of p, and the fields of its buffer, as values.                *)
LEMMA MyValues ==
  ASSUME BufInv, NEW p \in Use, buf_op[p].at \notin {"none", "drop", "panic"}
  PROVE  \E m \in Buf, c \in BlockNo, d \in BlockValue, k \in 0 .. 1, h \in BlockValue :
           /\ m = buf_op[p].buf /\ c = buf_op[p].blockno /\ bcache[m].blockno = c
           /\ d = bcache[m].data /\ k = bcache[m].pinned /\ h = disk_block[c]
<1>1. bcache \in [Buf -> BufRecord] /\ disk_block \in [BlockNo -> BlockValue]
  BY Zenon, CacheTypes DEF BufInv
<1> QED BY Zenon, <1>1, MyBuffer DEF BufRecord

(* acquiresleep on a valid buffer takes the block; else reading it does.   *)
LEMMA ImplAcquire ==
  ASSUME BufInv, DataExact, Seen, Seen', NEW p \in Use, acquiresleep(p)
  PROVE  Implements
<1>1. PICK m \in Buf, c \in BlockNo, d \in BlockValue, k \in 0 .. 1, h \in BlockValue :
        /\ m = buf_op[p].buf /\ c = buf_op[p].blockno /\ bcache[m].blockno = c
        /\ d = bcache[m].data /\ k = bcache[m].pinned /\ h = disk_block[c]
  BY Zenon, AcquireEffect, MyValues
<1>2. buf_op[p].at = "lock" /\ UNCHANGED disk_block /\ Same(m)
  BY Zenon, <1>1, AcquireEffect
<1>3. CASE bcache[m].valid = 1
  <2>1. GoesOn(p, "held")
    BY Zenon, <1>1, <1>3, AcquireEffect
  <2>2. /\ HolderOf(c) = NoBuf /\ HolderOf(c)' = p
        /\ \A b \in BlockNo \ {c} : HolderOf(b)' = HolderOf(b)
    BY Zenon, <1>1, <1>2, <2>1, HolderGains DEF Held
  <2>3. UNCHANGED <<copies, pinsAll>>
    BY Zenon, <1>2, SeenSame, Keeps
  <2>4. copies[c] = d /\ d # NoBuf
    BY <1>1, <1>3, Updates, BufferCacheAssumption DEF Seen
  <2>5. holders[c] = NoBuf /\ holders' = [holders EXCEPT ![c] = p]
    BY Zenon, <2>2, Updates
  <2>6. copies' = [copies EXCEPT ![c] = IF @ = NoBuf THEN disk_block[c] ELSE @]
    BY Zenon, <2>3, <2>4 DEF copies
  <2>7. Contract!Acquire(p, c)
    BY Zenon, <1>2, <2>3, <2>5, <2>6, ContractActions
  <2> QED BY Zenon, <2>7 DEF Implements, Contract!CacheNext
<1>4. CASE bcache[m].valid # 1
  <2>1. GoesOn(p, "read")
    BY Zenon, <1>1, <1>4, AcquireEffect DEF GoesOn
  <2> QED BY <1>2, <2>1, ImplStutter DEF Held
<1> QED BY Zenon, <1>3, <1>4

LEMMA ImplRead ==
  ASSUME BufInv, DataExact, Seen, Seen', NEW p \in Use, bread_disk(p)
  PROVE  Implements
<1>1. PICK m \in Buf, c \in BlockNo, d \in BlockValue, k \in 0 .. 1, h \in BlockValue :
        /\ m = buf_op[p].buf /\ c = buf_op[p].blockno /\ bcache[m].blockno = c
        /\ d = bcache[m].data /\ k = bcache[m].pinned /\ h = disk_block[c]
  BY Zenon, ReadEffect, MyValues
<1>2. buf_op[p].at = "read" /\ UNCHANGED disk_block /\ GoesOn(p, "held")
  BY Zenon, ReadEffect
<1>3. PICK v : v = 1
  OBVIOUS
<1>4. Becomes(m, c, v, h, k)
  BY Zenon, <1>1, <1>3, ReadEffect
<1>5. /\ HolderOf(c) = NoBuf /\ HolderOf(c)' = p
      /\ \A b \in BlockNo \ {c} : HolderOf(b)' = HolderOf(b)
  BY Zenon, <1>1, <1>2, HolderGains DEF Held
<1>6. CopyOf(c) = NoBuf /\ PinsOf(c) = k
  <2>1. bcache[m].valid = 0
    BY Zenon, <1>1, <1>2 DEF DataExact
  <2> QED BY <1>1, <2>1 DEF Seen
<1>7. /\ CopyOf(c)' = (IF v = 1 THEN h ELSE NoBuf) /\ PinsOf(c)' = k
      /\ \A b \in BlockNo \ {c} : CopyOf(b)' = CopyOf(b) /\ PinsOf(b)' = PinsOf(b)
  <2>1. bcache[m].blockno = c
    BY Zenon, <1>1
  <2> QED BY Zenon, <1>4, <2>1, SeenOne
<1>8. UNCHANGED pinsAll
  BY Zenon, <1>6, <1>7, Keeps
<1>9. /\ holders[c] = NoBuf /\ holders' = [holders EXCEPT ![c] = p]
      /\ copies' = [copies EXCEPT ![c] = h] /\ copies[c] = NoBuf
  BY <1>3, <1>5, <1>6, <1>7, Updates
<1>10. copies' = [copies EXCEPT ![c] = IF @ = NoBuf THEN disk_block[c] ELSE @]
  BY Zenon, <1>1, <1>9
<1>11. Contract!Acquire(p, c)
  BY Zenon, <1>2, <1>8, <1>9, <1>10, ContractActions
<1> QED BY Zenon, <1>11 DEF Implements, Contract!CacheNext

(* What the holder has.                                                    *)
LEMMA ImplHolder ==
  ASSUME BufInv, DataExact, Seen, Seen', NEW p \in Use, buf_op[p].at \in Held
  PROVE  /\ \E m \in Buf, c \in BlockNo, d \in BlockValue, k \in 0 .. 1 :
              /\ m = buf_op[p].buf /\ bcache[m].blockno = c /\ bcache[m].valid = 1
              /\ d = bcache[m].data /\ k = bcache[m].pinned
              /\ c = buf_op[p].blockno /\ holders[c] = p /\ copies[c] = d /\ pinsAll[c] = k
         /\ \A l \in Held : GoesOn(p, l) => UNCHANGED holders
<1>1. PICK m \in Buf, c \in BlockNo, d \in BlockValue, k \in 0 .. 1, h \in BlockValue :
        /\ m = buf_op[p].buf /\ c = buf_op[p].blockno /\ bcache[m].blockno = c
        /\ d = bcache[m].data /\ k = bcache[m].pinned /\ h = disk_block[c]
  BY Zenon, MyValues DEF Held
<1>2. bcache[m].valid = 1
  BY Zenon, <1>1 DEF DataExact
<1>3. holders[c] = p /\ copies[c] = d /\ pinsAll[c] = k
  BY <1>1, <1>2, Updates DEF Seen
<1>4. \A l \in Held : GoesOn(p, l) => UNCHANGED holders
  BY Zenon, HolderSame, Keeps
<1> QED BY Zenon, <1>1, <1>2, <1>3, <1>4

LEMMA ImplChange ==
  ASSUME BufInv, DataExact, Seen, Seen', NEW p \in Use, NEW v \in BlockValue, change(p, v)
  PROVE  Implements
<1>1. buf_op[p].at = "held" /\ UNCHANGED disk_block /\ GoesOn(p, "changed")
  BY Zenon, ChangeEffect
<1>2. PICK m \in Buf, c \in BlockNo, d \in BlockValue, k \in 0 .. 1 :
        /\ m = buf_op[p].buf /\ bcache[m].blockno = c /\ bcache[m].valid = 1
        /\ d = bcache[m].data /\ k = bcache[m].pinned
        /\ c = buf_op[p].blockno /\ holders[c] = p /\ copies[c] = d /\ pinsAll[c] = k
  BY Zenon, <1>1, ImplHolder DEF Held
<1>3. UNCHANGED holders
  BY Zenon, <1>1, ImplHolder DEF Held
<1>4. PICK one, n : one = 1 /\ n = k
  OBVIOUS
<1>5. Becomes(m, c, one, v, n)
  BY Zenon, <1>2, <1>4, ChangeEffect
<1>6. /\ CopyOf(c)' = (IF one = 1 THEN v ELSE NoBuf) /\ PinsOf(c)' = n
      /\ \A b \in BlockNo \ {c} : CopyOf(b)' = CopyOf(b) /\ PinsOf(b)' = PinsOf(b)
  BY Zenon, <1>2, <1>5, SeenOne
<1>7. copies' = [copies EXCEPT ![c] = v] /\ pinsAll' = [pinsAll EXCEPT ![c] = n]
  BY <1>4, <1>6, Updates
<1>8. UNCHANGED pinsAll
  BY Zenon, <1>2, <1>4, <1>7 DEF pinsAll
<1>9. Contract!Change(p, c, v)
  BY Zenon, <1>1, <1>2, <1>3, <1>7, <1>8, ContractActions
<1> QED BY Zenon, <1>9 DEF Implements, Contract!CacheNext

LEMMA ImplPin ==
  ASSUME BufInv, DataExact, Seen, Seen', NEW p \in Use, bpin(p)
  PROVE  Implements
<1>1. buf_op[p].at = "changed" /\ UNCHANGED disk_block /\ GoesOn(p, "held")
  BY Zenon, PinEffect
<1>2. PICK m \in Buf, c \in BlockNo, d \in BlockValue, k \in 0 .. 1 :
        /\ m = buf_op[p].buf /\ bcache[m].blockno = c /\ bcache[m].valid = 1
        /\ d = bcache[m].data /\ k = bcache[m].pinned
        /\ c = buf_op[p].blockno /\ holders[c] = p /\ copies[c] = d /\ pinsAll[c] = k
  BY Zenon, <1>1, ImplHolder DEF Held
<1>3. UNCHANGED holders
  BY Zenon, <1>1, ImplHolder DEF Held
<1>4. PICK one, n : one = 1 /\ n = 1
  OBVIOUS
<1>5. Becomes(m, c, one, d, n)
  BY Zenon, <1>2, <1>4, PinEffect
<1>6. /\ CopyOf(c)' = (IF one = 1 THEN d ELSE NoBuf) /\ PinsOf(c)' = n
      /\ \A b \in BlockNo \ {c} : CopyOf(b)' = CopyOf(b) /\ PinsOf(b)' = PinsOf(b)
  BY Zenon, <1>2, <1>5, SeenOne
<1>7. copies' = [copies EXCEPT ![c] = d] /\ pinsAll' = [pinsAll EXCEPT ![c] = n]
  BY <1>4, <1>6, Updates
<1>8. UNCHANGED copies
  BY Zenon, <1>2, <1>7 DEF copies
<1>9. CASE k = 1
  <2>1. UNCHANGED pinsAll
    BY Zenon, <1>2, <1>4, <1>7, <1>9 DEF pinsAll
  <2> QED BY Zenon, <1>1, <1>3, <1>8, <2>1, ContractStutter DEF Implements
<1>10. CASE k = 0
  <2>1. pinsAll' = [pinsAll EXCEPT ![c] = @ + 1]
    <3>1. n = pinsAll[c] + 1
      BY <1>2, <1>4, <1>10
    <3> QED BY Zenon, <1>7, <3>1
  <2>2. Contract!Pin(p, c)
    BY Zenon, <1>1, <1>2, <1>3, <1>8, <2>1, ContractActions
  <2> QED BY Zenon, <2>2 DEF Implements, Contract!CacheNext
<1> QED BY <1>9, <1>10

LEMMA ImplUnpin ==
  ASSUME BufInv, DataExact, Seen, Seen', NEW p \in Use, bunpin(p)
  PROVE  Implements
<1>1. buf_op[p].at = "unpin" /\ UNCHANGED disk_block /\ GoesOn(p, "held")
  BY Zenon, UnpinEffect
<1>2. PICK m \in Buf, c \in BlockNo, d \in BlockValue, k \in 0 .. 1 :
        /\ m = buf_op[p].buf /\ bcache[m].blockno = c /\ bcache[m].valid = 1
        /\ d = bcache[m].data /\ k = bcache[m].pinned
        /\ c = buf_op[p].blockno /\ holders[c] = p /\ copies[c] = d /\ pinsAll[c] = k
  BY Zenon, <1>1, ImplHolder DEF Held
<1>3. UNCHANGED holders
  BY Zenon, <1>1, ImplHolder DEF Held
<1>4. PICK one, n : one = 1 /\ n = 0
  OBVIOUS
<1>5. Becomes(m, c, one, d, n)
  BY Zenon, <1>2, <1>4, UnpinEffect
<1>6. /\ CopyOf(c)' = (IF one = 1 THEN d ELSE NoBuf) /\ PinsOf(c)' = n
      /\ \A b \in BlockNo \ {c} : CopyOf(b)' = CopyOf(b) /\ PinsOf(b)' = PinsOf(b)
  BY Zenon, <1>2, <1>5, SeenOne
<1>7. copies' = [copies EXCEPT ![c] = d] /\ pinsAll' = [pinsAll EXCEPT ![c] = n]
  BY <1>4, <1>6, Updates
<1>8. UNCHANGED copies
  BY Zenon, <1>2, <1>7 DEF copies
<1>9. k = 1
  BY Zenon, <1>1, <1>2 DEF BufInv, PinExact
<1>10. pinsAll' = [pinsAll EXCEPT ![c] = @ - 1] /\ pinsAll[c] > 0
  <2>1. n = pinsAll[c] - 1 /\ pinsAll[c] > 0
    BY <1>2, <1>4, <1>9
  <2> QED BY Zenon, <1>7, <2>1
<1>11. Contract!Unpin(p, c)
  BY Zenon, <1>1, <1>2, <1>3, <1>8, <1>10, ContractActions
<1> QED BY Zenon, <1>11 DEF Implements, Contract!CacheNext

LEMMA ImplWrite ==
  ASSUME BufInv, DataExact, Seen, Seen', NEW p \in Use, bwrite(p)
  PROVE  Implements
<1>1. /\ buf_op[p].at \in Held /\ UNCHANGED bcache
      /\ \E l \in Held : GoesOn(p, l)
  BY Zenon, WriteEffect DEF Held
<1>2. PICK m \in Buf, c \in BlockNo, d \in BlockValue, k \in 0 .. 1 :
        /\ m = buf_op[p].buf /\ bcache[m].blockno = c /\ bcache[m].valid = 1
        /\ d = bcache[m].data /\ k = bcache[m].pinned
        /\ c = buf_op[p].blockno /\ holders[c] = p /\ copies[c] = d /\ pinsAll[c] = k
  BY Zenon, <1>1, ImplHolder
<1>3. UNCHANGED holders
  BY Zenon, <1>1, ImplHolder
<1>4. Same(m) /\ disk_block' = [disk_block EXCEPT ![c] = copies[c]]
  BY <1>2, WriteEffect DEF Same, Becomes, SameBuffers
<1>5. UNCHANGED <<copies, pinsAll>>
  BY Zenon, <1>4, SeenSame, Keeps
<1>6. Contract!WriteHome(p, c)
  BY Zenon, <1>2, <1>3, <1>4, <1>5, ContractActions
<1> QED BY Zenon, <1>6 DEF Implements, Contract!CacheNext

LEMMA ImplUnlock ==
  ASSUME BufInv, DataExact, Seen, Seen', NEW p \in Use, brelse_unlock(p)
  PROVE  Implements
<1>1. buf_op[p].at = "held" /\ UNCHANGED disk_block /\ GoesOn(p, "drop")
  BY Zenon, UnlockEffect
<1>2. PICK m \in Buf, c \in BlockNo : m = buf_op[p].buf /\ c = buf_op[p].blockno
  BY Zenon, <1>1, MyBuffer
<1>3. Same(m)
  BY Zenon, <1>2, UnlockEffect
<1>4. /\ HolderOf(c) = p /\ HolderOf(c)' = NoBuf
      /\ \A b \in BlockNo \ {c} : HolderOf(b)' = HolderOf(b)
  BY Zenon, <1>1, <1>2, HolderLoses DEF Held
<1>5. UNCHANGED <<copies, pinsAll>>
  BY Zenon, <1>3, SeenSame, Keeps
<1>6. holders[c] = p /\ holders' = [holders EXCEPT ![c] = NoBuf]
  BY Zenon, <1>4, Updates
<1>7. Contract!Release(p, c)
  BY Zenon, <1>1, <1>5, <1>6, ContractActions
<1> QED BY Zenon, <1>7 DEF Implements, Contract!CacheNext

(* Recycling a buffer drops the copy of its old block, which is the same   *)
(* as the block on the disk, if it has one.                                *)
LEMMA ImplRecycle ==
  ASSUME BufInv, FreeIsUnused, DataExact, Seen, Seen',
         NEW p \in Use, NEW b \in BlockNo, bget_recycle(p, b)
  PROVE  Implements
<1>1. UNCHANGED disk_block /\ Outside(p) /\ \A i \in Buf : bcache[i].blockno # b
  BY Zenon, RecycleEffect
<1>2. PICK m \in Buf : /\ Becomes(m, b, 0, BlockZero, 0) /\ bcache[m].pinned = 0
                       /\ \A q \in Use : buf_op[q].buf # m
  BY Zenon, RecycleEffect
<1>3. UNCHANGED holders
  BY Zenon, <1>1, HolderSame, Keeps
<1>4. /\ bcache'[m].blockno = b /\ bcache'[m].valid = 0 /\ bcache'[m].pinned = 0
      /\ \A i \in Buf \ {m} : /\ bcache'[i].blockno = bcache[i].blockno
                              /\ bcache'[i].valid = bcache[i].valid
                              /\ bcache'[i].data = bcache[i].data
                              /\ bcache'[i].pinned = bcache[i].pinned
  BY Zenon, <1>2 DEF Becomes, SameBuffers
<1>5. /\ CopyOf(b) = NoBuf /\ CopyOf(b)' = NoBuf /\ PinsOf(b) = 0 /\ PinsOf(b)' = 0
  BY <1>1, <1>4 DEF Seen
<1>6. \A c \in BlockNo : c # bcache[m].blockno => CopyOf(c)' = CopyOf(c) /\ PinsOf(c)' = PinsOf(c)
  <2> SUFFICES ASSUME NEW c \in BlockNo, c # bcache[m].blockno
               PROVE  CopyOf(c)' = CopyOf(c) /\ PinsOf(c)' = PinsOf(c)
    OBVIOUS
  <2>1. CASE c = b
    BY Zenon, <1>5, <2>1
  <2>2. CASE c # b /\ \E i \in Buf \ {m} : bcache[i].blockno = c
    BY <1>4 DEF Seen
  <2>3. CASE c # b /\ \A i \in Buf \ {m} : bcache[i].blockno # c
    BY <1>4 DEF Seen
  <2> QED BY Zenon, <2>1, <2>2, <2>3
<1>7. ASSUME NEW c \in BlockNo, c = bcache[m].blockno
      PROVE  CopyOf(c)' = NoBuf /\ PinsOf(c)' = 0 /\ PinsOf(c) = 0
  <2>1. \A i \in Buf \ {m} : bcache[i].blockno # c
    BY Zenon, <1>7, BufferCacheAssumption DEF BufInv, OneBufferPerBlock
  <2>2. \A i \in Buf : bcache'[i].blockno # c
    BY Zenon, <1>1, <1>4, <1>7, <2>1
  <2> QED BY Zenon, <1>2, <1>7, <2>2 DEF Seen
<1>8. UNCHANGED pinsAll
  BY Zenon, <1>6, <1>7, Keeps
<1>9. CASE bcache[m].valid = 1
  <2>1. PICK c \in BlockNo : c = bcache[m].blockno
    BY Zenon, <1>9 DEF DataExact
  <2>2. CopyOf(c) = bcache[m].data /\ bcache[m].data = disk_block[c]
    <3>1. CopyOf(c) = bcache[m].data
      BY Zenon, <1>9, <2>1 DEF Seen
    <3>2. bcache[m].pinned = 0 /\ \A q \in Use : buf_op[q].buf # m
      BY Zenon, <1>2
    <3> QED BY Zenon, <1>9, <2>1, <3>1, <3>2 DEF DataExact
  <2>3. HolderOf(c) = NoBuf
    <3>1. ASSUME NEW q \in Use, buf_op[q].at \in Held PROVE buf_op[q].blockno # c
      <4>1. buf_op[q].buf \in Buf /\ bcache[buf_op[q].buf].blockno = buf_op[q].blockno
        BY Zenon, <3>1, MyBuffer DEF Held
      <4>2. buf_op[q].buf # m
        BY Zenon, <1>2
      <4> QED BY <2>1, <4>1, <4>2, BufferCacheAssumption DEF BufInv, OneBufferPerBlock
    <3> QED BY Zenon, <3>1 DEF Seen
  <2>4. copies' = [copies EXCEPT ![c] = NoBuf]
    BY <1>6, <1>7, <2>1, Updates
  <2>5. holders[c] = NoBuf /\ pinsAll[c] = 0 /\ copies[c] = disk_block[c]
    BY Zenon, <1>7, <2>1, <2>2, <2>3, Updates
  <2>6. Contract!Drop(c)
    BY Zenon, <1>1, <1>3, <1>8, <2>4, <2>5, ContractActions
  <2> QED BY Zenon, <2>6 DEF Implements, Contract!CacheNext
<1>10. CASE bcache[m].valid # 1
  <2>1. \A c \in BlockNo : c = bcache[m].blockno => CopyOf(c) = NoBuf
    BY Zenon, <1>10 DEF Seen
  <2>2. UNCHANGED copies
    BY Zenon, <1>6, <1>7, <2>1, Keeps
  <2> QED BY Zenon, <1>1, <1>3, <1>8, <2>2, ContractStutter DEF Implements
<1> QED BY Zenon, <1>9, <1>10

LEMMA ImplNext ==
  ASSUME BufInv, BufInv', FreeIsUnused, DataExact, [BufferCacheNext]_bufVars PROVE Implements
<1>1. Seen /\ Seen'
  BY Zenon, SeenNow, SeenNext
<1>2. CASE UNCHANGED bufVars
  <2>1. UNCHANGED <<disk_block, copies, pinsAll, holders>>
    BY <1>2 DEF bufVars, copies, pinsAll, holders, CopyOf, PinsOf, HolderOf, cached, buf_at
  <2> QED BY Zenon, <2>1, ContractStutter DEF Implements
<1>3. ASSUME NEW p \in Use, acquiresleep_sleep(p) PROVE Implements
  <2>1. Same(buf_op[p].buf)
    BY Zenon, <1>3, SleepEffect DEF Same, Becomes, SameBuffers
  <2>2. \E l : GoesOn(p, l) /\ (l \in Held <=> buf_op[p].at \in Held)
    BY <1>3, SleepEffect DEF Held
  <2> QED BY Zenon, <1>1, <1>3, <2>1, <2>2, SleepEffect, ImplStutter
<1>4. ASSUME NEW p \in Use, NEW b \in BlockNo, bget_hit(p, b) PROVE Implements
  BY Zenon, <1>1, <1>4, HitEffect, ImplStutter
<1>6. ASSUME NEW p \in Use, NEW b \in BlockNo, bget_panic(p, b) PROVE Implements
  BY Zenon, <1>1, <1>6, PanicEffect, ImplStutter
<1>5. ASSUME NEW p \in Use, brelse_unref(p) PROVE Implements
  BY Zenon, <1>1, <1>5, UnrefEffect, ImplStutter
<1> QED BY Zenon, <1>1, <1>2, <1>3, <1>4, <1>5, <1>6, ImplAcquire, ImplRead, ImplChange,
    ImplPin, ImplUnpin, ImplWrite, ImplUnlock, ImplRecycle
    DEF BufferCacheNext, buf_step, panic_loop

LEMMA ImplInit == BufferCacheInit /\ BufInv => Contract!CacheInit
<1> SUFFICES ASSUME BufferCacheInit, BufInv PROVE Contract!CacheInit
  OBVIOUS
<1>1. \A i \in Buf : bcache[i].blockno = NoBuf
  BY Zenon DEF BufferCacheInit, binit
<1>2. \A p \in Use : buf_op[p].at = "none"
  BY Zenon DEF BufferCacheInit, no_buf
<1>3. \A b \in BlockNo : CopyOf(b) = NoBuf /\ PinsOf(b) = 0 /\ HolderOf(b) = NoBuf
  BY Zenon, <1>1, <1>2, SeenNow, BufferCacheAssumption DEF Seen, Held
<1> QED BY Zenon, <1>3, ContractNames DEF BufferCacheInit, copies, pinsAll, holders

=============================================================================
