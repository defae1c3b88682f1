--------------------------- MODULE BufferCacheProof ---------------------------
(***************************************************************************)
(* The books of the buffer cache are right for any number of processes,    *)
(* buffers and blocks, and bio.c keeps the contract that the log needs.    *)
(***************************************************************************)
EXTENDS BufferCacheInvariant, FiniteSetTheorems, TLAPS

USE SMTT(20)

LEMMA BufTypes ==
  BufferCacheTypeOK <=> /\ disk_block \in [BlockNo -> BlockValue]
                        /\ bcache \in [Buf -> BufRecord]
                        /\ lru \in [1 .. NBUF -> Buf]
                        /\ buf_op \in [Use -> OpRecord]
  BY Zenon DEF BufferCacheTypeOK, BufRecord, OpRecord

-----------------------------------------------------------------------------
LEMMA BufNumbers == Buf = 1 .. NBUF /\ 0 \notin Buf /\ Buf \subseteq Nat
  BY DEF Buf

LEMMA UseFinite == IsFiniteSet(Use)
<1>1. IsFiniteSet({1, 2})
  <2>1. PICK m \in Int, n \in Int : m = 1 /\ n = 2
    OBVIOUS
  <2>2. m .. n = {1, 2}
    BY <2>1
  <2>3. IsFiniteSet(m .. n)
    BY Zenon, FS_Interval
  <2> QED BY Zenon, <2>2, <2>3
<1> QED BY Zenon, <1>1, BufferCacheAssumption, FS_Product DEF Use

LEMMA UsersCount ==
  ASSUME NEW S \in SUBSET Use
  PROVE  /\ Cardinality(S) \in Nat
         /\ Cardinality(S) = 0 <=> S = {}
         /\ \A p : p \notin S => Cardinality(S \cup {p}) = Cardinality(S) + 1
         /\ \A p \in S : Cardinality(S \ {p}) = Cardinality(S) - 1
<1>1. IsFiniteSet(S)
  BY Zenon, UseFinite, FS_Subset
<1> QED BY Zenon, <1>1, FS_CardinalityType, FS_EmptySet, FS_AddElement, FS_RemoveElement

(* The updates of struct buf keep its fields in their ranges.              *)
LEMMA LockUpdate ==
  ASSUME NEW r \in BufRecord, NEW l \in Use \cup {NoBuf}
  PROVE  [r EXCEPT !.locked = l] \in BufRecord
  BY Zenon DEF BufRecord

LEMMA DataUpdate ==
  ASSUME NEW r \in BufRecord, NEW d \in BlockValue
  PROVE  [r EXCEPT !.data = d] \in BufRecord
  BY Zenon DEF BufRecord

LEMMA ReadUpdate ==
  ASSUME NEW r \in BufRecord, NEW d \in BlockValue, NEW v \in 0 .. 1
  PROVE  [r EXCEPT !.data = d, !.valid = v] \in BufRecord
  BY Zenon DEF BufRecord

LEMMA CountUpdate ==
  ASSUME NEW r \in BufRecord, NEW n \in Nat
  PROVE  [r EXCEPT !.refcnt = n] \in BufRecord
  BY Zenon DEF BufRecord

LEMMA PinUpdate ==
  ASSUME NEW r \in BufRecord, NEW n \in Nat, NEW k \in 0 .. 1
  PROVE  [r EXCEPT !.refcnt = n, !.pinned = k] \in BufRecord
  BY Zenon DEF BufRecord

LEMMA RecycleUpdate ==
  ASSUME NEW r \in BufRecord, NEW b \in BlockNo, NEW v \in 0 .. 1, NEW n \in Nat, NEW d \in BlockValue
  PROVE  [r EXCEPT !.blockno = b, !.valid = v, !.refcnt = n, !.data = d] \in BufRecord
  BY Zenon DEF BufRecord

(* Moving a buffer to the front leaves the list a permutation.             *)
LEMMA ToFront ==
  ASSUME lru \in [1 .. NBUF -> Buf], Range(lru) = Buf, NEW i \in Buf
  PROVE  to_front(i) \in [1 .. NBUF -> Buf] /\ Range(to_front(i)) = Buf
<1> DEFINE at == CHOOSE k \in 1 .. NBUF : lru[k] = i
           new == to_front(i)
<1>1. at \in 1 .. NBUF /\ lru[at] = i
  BY Zenon DEF Range
<1>2. \A k \in 1 .. NBUF : new[k] = IF k = 1 THEN i ELSE IF k <= at THEN lru[k - 1] ELSE lru[k]
  BY <1>1 DEF to_front
<1>3. DOMAIN new = 1 .. NBUF
  BY Zenon DEF to_front
<1> HIDE DEF at
<1>4. new \in [1 .. NBUF -> Buf]
  <2> DEFINE e(k) == CASE k = 1 -> i [] 1 < k /\ k <= at -> lru[k - 1] [] k > at -> lru[k]
  <2>1. ASSUME NEW k \in 1 .. NBUF PROVE e(k) \in Buf
    BY <1>1, BufferCacheAssumption
  <2>2. new = [k \in 1 .. NBUF |-> e(k)]
    BY Zenon DEF to_front, at
  <2> HIDE DEF e, new
  <2> QED BY Zenon, <2>1, <2>2
<1>5. ASSUME NEW j \in Buf PROVE \E k \in 1 .. NBUF : new[k] = j
  <2>1. PICK k \in 1 .. NBUF : lru[k] = j
    BY Zenon DEF Range
  <2> HIDE DEF new
  <2>2. CASE j = i
    BY <1>2, <2>2, BufferCacheAssumption
  <2>3. CASE j # i /\ k < at
    <3>1. k + 1 \in 1 .. NBUF /\ k + 1 # 1 /\ k + 1 <= at /\ (k + 1) - 1 = k
      BY <1>1, <2>3, BufferCacheAssumption
    <3> QED BY Zenon, <1>2, <2>1, <3>1
  <2>4. CASE j # i /\ k > at
    <3>1. k # 1 /\ ~(k <= at)
      BY <1>1, <2>4
    <3> QED BY Zenon, <1>2, <2>1, <3>1
  <2>5. k # at \/ j = i
    BY Zenon, <1>1, <2>1
  <2> QED BY <1>1, <2>2, <2>3, <2>4, <2>5
<1> HIDE DEF new
<1>6. Range(new) = Buf
  BY Zenon, <1>4, <1>5 DEF Range
<1> QED BY Zenon, <1>4, <1>6 DEF new

-----------------------------------------------------------------------------
LEMMA BufInitInv == BufferCacheInit => BufInv
<1> SUFFICES ASSUME BufferCacheInit PROVE BufInv
  OBVIOUS
<1> USE BufferCacheAssumption, BufNumbers
<1>1. BufferCacheTypeOK
  BY BufTypes DEF BufferCacheInit, binit, no_buf, BufRecord, OpRecord
<1>2. OneBufferPerBlock /\ BufferSleepersMustWait /\ HasBuffer /\ LockExact
  BY Zenon DEF BufferCacheInit, binit, no_buf, OneBufferPerBlock, BufferSleepersMustWait,
     HasBuffer, LockExact, buf_at
<1>3. RefcntExact
  <2>1. Range(lru) = Buf
    <3>1. ASSUME NEW j \in Buf PROVE \E k \in 1 .. NBUF : lru[k] = j
      <4>1. NBUF + 1 - j \in 1 .. NBUF /\ NBUF + 1 - (NBUF + 1 - j) = j
        OBVIOUS
      <4> QED BY DEF BufferCacheInit, binit
    <3>2. lru \in [1 .. NBUF -> Buf]
      BY Zenon, <1>1, BufTypes
    <3> QED BY Zenon, <3>1, <3>2 DEF Range
  <2>2. ASSUME NEW i \in Buf PROVE {p \in Use : mine(p) = i} = {}
    BY Zenon DEF BufferCacheInit, no_buf, mine
  <2>3. Cardinality({}) = 0
    BY Zenon, FS_EmptySet
  <2>4. ASSUME NEW i \in Buf PROVE bcache[i].refcnt = 0 /\ bcache[i].pinned = 0
    BY Zenon DEF BufferCacheInit, binit
  <2>5. ASSUME NEW i \in Buf
        PROVE  bcache[i].refcnt = Cardinality({p \in Use : mine(p) = i}) + bcache[i].pinned
    <3>1. Cardinality({p \in Use : mine(p) = i}) = 0
      BY Zenon, <2>2, <2>3
    <3> QED BY <2>4, <3>1
  <2> QED BY Zenon, <2>1, <2>5 DEF RefcntExact
<1>4. PinExact
  BY Zenon DEF PinExact, BufferCacheInit, no_buf
<1> QED BY Zenon, <1>1, <1>2, <1>3, <1>4 DEF BufInv

(* A step that leaves every process its buffer, and every buffer its       *)
(* reference count and its pin, leaves the counts right.                   *)
LEMMA CountsKept ==
  ASSUME BufInv, lru' = lru,
         \A q \in Use : buf_op'[q].buf = buf_op[q].buf,
         \A i \in Buf : bcache'[i].refcnt = bcache[i].refcnt /\ bcache'[i].pinned = bcache[i].pinned
  PROVE  RefcntExact'
<1>1. \A i \in Buf : {q \in Use : mine(q)'= i} = {q \in Use : mine(q) = i}
  BY Zenon DEF mine
<1> QED BY Zenon, <1>1 DEF BufInv, RefcntExact

LEMMA HoldsBuffer ==
  ASSUME BufInv, NEW p \in Use, buf_op[p].at \notin {"none", "panic"}
  PROVE  /\ buf_op[p].buf \in Buf /\ buf_op[p].blockno \in BlockNo
         /\ bcache[buf_op[p].buf].refcnt > 0
<1>1. buf_op[p].buf \in Buf /\ buf_op[p].blockno \in BlockNo
  BY Zenon DEF BufInv, HasBuffer
<1> DEFINE S == {q \in Use : mine(q) = buf_op[p].buf}
<1>2. p \in S
  BY Zenon DEF mine
<1>3. Cardinality(S) \in Nat /\ Cardinality(S) # 0
  BY Zenon, <1>2, UsersCount
<1>4. bcache[buf_op[p].buf].refcnt = Cardinality(S) + bcache[buf_op[p].buf].pinned
  BY Zenon, <1>1 DEF BufInv, RefcntExact
<1>5. bcache[buf_op[p].buf].pinned \in Nat
  BY <1>1, BufTypes DEF BufInv, BufRecord
<1> HIDE DEF S
<1> QED BY <1>1, <1>3, <1>4, <1>5

-----------------------------------------------------------------------------
(* acquiresleep, reading, changing and writing: nobody's buffer changes.   *)
LEMMA AcquireKeeps ==
  ASSUME BufInv, NEW p \in Use, acquiresleep(p) PROVE BufInv'
<1> USE BufferCacheAssumption
<1>1. buf_op[p].at = "lock" /\ buf_op[p].buf \in Buf /\ bcache[buf_op[p].buf].locked = NoBuf
  BY Zenon, HoldsBuffer DEF acquiresleep, buf_at, mine
<1>2. /\ disk_block \in [BlockNo -> BlockValue] /\ bcache \in [Buf -> BufRecord]
      /\ lru \in [1 .. NBUF -> Buf] /\ buf_op \in [Use -> OpRecord]
  BY Zenon, BufTypes DEF BufInv
<1> DEFINE l == IF bcache[buf_op[p].buf].valid = 1 THEN "held" ELSE "read"
<1>3. /\ bcache' = [bcache EXCEPT ![buf_op[p].buf].locked = p]
      /\ buf_op' = [buf_op EXCEPT ![p].at = l]
      /\ disk_block' = disk_block /\ lru' = lru /\ l \in {"held", "read"}
  BY Zenon DEF acquiresleep, mine, buf_goto
<1> HIDE DEF l
<1>4. BufferCacheTypeOK'
  <2>1. [bcache[buf_op[p].buf] EXCEPT !.locked = p] \in BufRecord
    BY Zenon, <1>1, <1>2, LockUpdate
  <2>2. [buf_op[p] EXCEPT !.at = l] \in OpRecord
    BY Zenon, <1>2, <1>3 DEF OpRecord
  <2> QED BY Zenon, <1>2, <1>3, <2>1, <2>2 DEF BufferCacheTypeOK, BufRecord, OpRecord
<1>5. RefcntExact'
  <2>1. \A q \in Use : buf_op'[q].buf = buf_op[q].buf
    BY <1>3
  <2>2. \A i \in Buf : bcache'[i].refcnt = bcache[i].refcnt /\ bcache'[i].pinned = bcache[i].pinned
    BY <1>3
  <2> QED BY <1>3, <2>1, CountsKept
<1>6. OneBufferPerBlock' /\ BufferSleepersMustWait' /\ HasBuffer'
  BY <1>1, <1>3 DEF BufInv, OneBufferPerBlock, BufferSleepersMustWait, HasBuffer, buf_at,
     mine
<1>7. LockExact'
  BY <1>1, <1>2, <1>3 DEF BufInv, LockExact, InLock, BufRecord, OpRecord
<1>8. \A q \in Use : buf_op'[q].at = "unpin" => bcache'[buf_op'[q].buf].pinned = 1
  BY <1>3 DEF BufInv, PinExact
<1> QED BY Zenon, <1>4, <1>5, <1>6, <1>7, <1>8 DEF BufInv, PinExact

LEMMA SleepKeeps ==
  ASSUME BufInv, NEW p \in Use, acquiresleep_sleep(p) PROVE BufInv'
<1> USE BufferCacheAssumption
<1>1. buf_op[p].at = "lock" /\ buf_op[p].buf \in Buf /\ bcache[buf_op[p].buf].locked # NoBuf
  BY Zenon, HoldsBuffer DEF acquiresleep_sleep, buf_at, mine
<1>2. /\ disk_block \in [BlockNo -> BlockValue] /\ bcache \in [Buf -> BufRecord]
      /\ lru \in [1 .. NBUF -> Buf] /\ buf_op \in [Use -> OpRecord]
  BY Zenon, BufTypes DEF BufInv
<1>3. /\ buf_op' = [buf_op EXCEPT ![p].at = "asleep"]
      /\ bcache' = bcache /\ disk_block' = disk_block /\ lru' = lru
  BY Zenon DEF acquiresleep_sleep, buf_goto
<1>4. BufferCacheTypeOK'
  <2>2. [buf_op[p] EXCEPT !.at = "asleep"] \in OpRecord
    BY Zenon, <1>2 DEF OpRecord
  <2> QED BY Zenon, <1>2, <1>3, <2>2 DEF BufferCacheTypeOK, BufRecord, OpRecord
<1>5. RefcntExact'
  <2>1. \A q \in Use : buf_op'[q].buf = buf_op[q].buf
    BY <1>3
  <2>2. \A i \in Buf : bcache'[i].refcnt = bcache[i].refcnt /\ bcache'[i].pinned = bcache[i].pinned
    BY Zenon, <1>3
  <2> QED BY <1>3, CountsKept
<1>6. OneBufferPerBlock' /\ HasBuffer'
  BY <1>1, <1>3 DEF BufInv, OneBufferPerBlock, HasBuffer, buf_at, mine
<1>7. BufferSleepersMustWait' /\ LockExact'
  BY <1>1, <1>3 DEF BufInv, BufferSleepersMustWait, HasBuffer, LockExact, InLock, buf_at,
     mine, BufRecord, OpRecord
<1>8. \A q \in Use : buf_op'[q].at = "unpin" => bcache'[buf_op'[q].buf].pinned = 1
  BY <1>3 DEF BufInv, PinExact
<1> QED BY Zenon, <1>4, <1>5, <1>6, <1>7, <1>8 DEF BufInv, PinExact


LEMMA ReadKeeps ==
  ASSUME BufInv, NEW p \in Use, bread_disk(p) PROVE BufInv'
<1> USE BufferCacheAssumption
<1>1. /\ buf_op[p].at = "read" /\ buf_op[p].buf \in Buf
      /\ bcache[buf_op[p].buf].blockno \in BlockNo
  BY Zenon, HoldsBuffer DEF bread_disk, buf_at, mine, BufInv, OneBufferPerBlock
<1>2. /\ disk_block \in [BlockNo -> BlockValue] /\ bcache \in [Buf -> BufRecord]
      /\ lru \in [1 .. NBUF -> Buf] /\ buf_op \in [Use -> OpRecord]
  BY Zenon, BufTypes DEF BufInv
<1> DEFINE d == disk_block[bcache[buf_op[p].buf].blockno]
<1>3. /\ bcache' = [bcache EXCEPT ![buf_op[p].buf].data = d, ![buf_op[p].buf].valid = 1]
      /\ buf_op' = [buf_op EXCEPT ![p].at = "held"]
      /\ disk_block' = disk_block /\ lru' = lru /\ d \in BlockValue
  BY Zenon, <1>1, <1>2 DEF bread_disk, mine, buf_goto
<1> HIDE DEF d
<1>4. BufferCacheTypeOK'
  <2>1. [bcache[buf_op[p].buf] EXCEPT !.data = d, !.valid = 1] \in BufRecord
    <3>1. 1 \in 0 .. 1
      OBVIOUS
    <3> QED BY Zenon, <1>1, <1>2, <1>3, <3>1, ReadUpdate
  <2>2. [buf_op[p] EXCEPT !.at = "held"] \in OpRecord
    BY Zenon, <1>2 DEF OpRecord
  <2> QED BY Zenon, <1>2, <1>3, <2>1, <2>2 DEF BufferCacheTypeOK, BufRecord, OpRecord
<1>5. RefcntExact'
  <2>1. \A q \in Use : buf_op'[q].buf = buf_op[q].buf
    BY <1>3
  <2>2. \A i \in Buf : bcache'[i].refcnt = bcache[i].refcnt /\ bcache'[i].pinned = bcache[i].pinned
    BY <1>2, <1>3
  <2> QED BY Zenon, <1>3, <2>1, <2>2, CountsKept
<1>6. OneBufferPerBlock' /\ HasBuffer'
  BY <1>1, <1>2, <1>3 DEF BufInv, OneBufferPerBlock, HasBuffer, buf_at, mine, BufRecord, OpRecord
<1>7. BufferSleepersMustWait' /\ LockExact'
  BY <1>1, <1>2, <1>3 DEF BufInv, BufferSleepersMustWait, HasBuffer, LockExact, InLock,
     buf_at, mine
<1>8. \A q \in Use : buf_op'[q].at = "unpin" => bcache'[buf_op'[q].buf].pinned = 1
  BY <1>2, <1>3 DEF BufInv, PinExact, HasBuffer
<1> QED BY Zenon, <1>4, <1>5, <1>6, <1>7, <1>8 DEF BufInv, PinExact


LEMMA ChangeKeeps ==
  ASSUME BufInv, NEW p \in Use, NEW v \in BlockValue, change(p, v) PROVE BufInv'
<1> USE BufferCacheAssumption
<1>1. buf_op[p].at = "held" /\ buf_op[p].buf \in Buf
  BY Zenon, HoldsBuffer DEF change, buf_at
<1>2. /\ disk_block \in [BlockNo -> BlockValue] /\ bcache \in [Buf -> BufRecord]
      /\ lru \in [1 .. NBUF -> Buf] /\ buf_op \in [Use -> OpRecord]
  BY Zenon, BufTypes DEF BufInv
<1>3. /\ bcache' = [bcache EXCEPT ![buf_op[p].buf].data = v]
      /\ buf_op' = [buf_op EXCEPT ![p].at = "changed"]
      /\ disk_block' = disk_block /\ lru' = lru
  BY Zenon DEF change, mine, buf_goto
<1>4. BufferCacheTypeOK'
  <2>1. [bcache[buf_op[p].buf] EXCEPT !.data = v] \in BufRecord
    BY Zenon, <1>1, <1>2, DataUpdate
  <2>2. [buf_op[p] EXCEPT !.at = "changed"] \in OpRecord
    BY Zenon, <1>2, <1>3 DEF OpRecord
  <2> QED BY Zenon, <1>2, <1>3, <2>1, <2>2 DEF BufferCacheTypeOK, BufRecord, OpRecord
<1>5. RefcntExact'
  <2>1. \A q \in Use : buf_op'[q].buf = buf_op[q].buf
    BY <1>3 DEF OpRecord
  <2>2. \A i \in Buf : bcache'[i].refcnt = bcache[i].refcnt /\ bcache'[i].pinned = bcache[i].pinned
    BY <1>3
  <2> QED BY <1>3, CountsKept
<1>6. OneBufferPerBlock' /\ HasBuffer'
  BY <1>1, <1>3 DEF BufInv, OneBufferPerBlock, HasBuffer, buf_at, mine
<1>7. BufferSleepersMustWait' /\ LockExact'
  BY <1>1, <1>3 DEF BufInv, BufferSleepersMustWait, LockExact, InLock, buf_at, mine
<1>8. \A q \in Use : buf_op'[q].at = "unpin" => bcache'[buf_op'[q].buf].pinned = 1
  BY <1>3 DEF BufInv, PinExact
<1> QED BY Zenon, <1>4, <1>5, <1>6, <1>7, <1>8 DEF BufInv, PinExact


LEMMA WriteKeeps ==
  ASSUME BufInv, NEW p \in Use, bwrite(p) PROVE BufInv'
<1> USE BufferCacheAssumption
<1>1. /\ buf_op[p].at \in {"held", "changed"} /\ buf_op[p].buf \in Buf
      /\ bcache[buf_op[p].buf].blockno \in BlockNo
  BY Zenon, HoldsBuffer DEF bwrite, buf_at, mine, BufInv, OneBufferPerBlock
<1>2. /\ disk_block \in [BlockNo -> BlockValue] /\ bcache \in [Buf -> BufRecord]
      /\ lru \in [1 .. NBUF -> Buf] /\ buf_op \in [Use -> OpRecord]
  BY Zenon, BufTypes DEF BufInv
<1> DEFINE l == IF bcache[buf_op[p].buf].pinned = 0 THEN "held" ELSE "unpin"
<1>3. /\ disk_block' = [disk_block EXCEPT ![bcache[buf_op[p].buf].blockno] = bcache[buf_op[p].buf].data]
      /\ buf_op' = [buf_op EXCEPT ![p].at = l]
      /\ bcache' = bcache /\ lru' = lru /\ l \in {"held", "unpin"}
      /\ l = "unpin" => bcache[buf_op[p].buf].pinned = 1
  BY <1>1, <1>2 DEF bwrite, mine, buf_goto, BufRecord
<1> HIDE DEF l
<1>4. BufferCacheTypeOK'
  <2>1. disk_block' \in [BlockNo -> BlockValue]
    BY Zenon, <1>1, <1>2, <1>3 DEF BufRecord
  <2>2. [buf_op[p] EXCEPT !.at = l] \in OpRecord
    BY <1>2, <1>3 DEF OpRecord
  <2> QED BY Zenon, <1>2, <1>3, <2>1, <2>2 DEF BufferCacheTypeOK, BufRecord, OpRecord
<1>5. RefcntExact'
  <2>1. \A q \in Use : buf_op'[q].buf = buf_op[q].buf
    BY <1>3
  <2>2. \A i \in Buf : bcache'[i].refcnt = bcache[i].refcnt /\ bcache'[i].pinned = bcache[i].pinned
    BY Zenon, <1>3
  <2> QED BY <1>3, CountsKept
<1>6. OneBufferPerBlock' /\ HasBuffer'
  BY <1>1, <1>3 DEF BufInv, OneBufferPerBlock, HasBuffer, buf_at, mine, OpRecord
<1>7. BufferSleepersMustWait' /\ LockExact'
  BY <1>1, <1>2, <1>3 DEF BufInv, BufferSleepersMustWait, LockExact, InLock, buf_at, mine
<1>8. \A q \in Use : buf_op'[q].at = "unpin" => bcache'[buf_op'[q].buf].pinned = 1
  BY <1>3 DEF BufInv, PinExact
<1> QED BY Zenon, <1>4, <1>5, <1>6, <1>7, <1>8 DEF BufInv, PinExact

LEMMA UnlockKeeps ==
  ASSUME BufInv, NEW p \in Use, brelse_unlock(p) PROVE BufInv'
<1> USE BufferCacheAssumption
<1> DEFINE m == buf_op[p].buf
<1>1. buf_op[p].at = "held" /\ m \in Buf /\ bcache[m].locked = p
  BY Zenon, HoldsBuffer DEF brelse_unlock, holdingsleep, buf_at, mine
<1>2. /\ disk_block \in [BlockNo -> BlockValue] /\ bcache \in [Buf -> BufRecord]
      /\ lru \in [1 .. NBUF -> Buf] /\ buf_op \in [Use -> OpRecord]
  BY Zenon, BufTypes DEF BufInv
<1> DEFINE op(q) == CASE q = p -> [buf_op[p] EXCEPT !.at = "drop"]
                      [] q # p /\ buf_op[q].at = "asleep" /\ buf_op[q].buf = m ->
                           [buf_op[q] EXCEPT !.at = "lock"]
                      [] OTHER -> buf_op[q]
<1>3. /\ bcache' = [bcache EXCEPT ![m].locked = NoBuf]
      /\ buf_op' = [q \in Use |-> op(q)]
      /\ disk_block' = disk_block /\ lru' = lru
  BY DEF brelse_unlock, releasesleep, mine
<1>4. ASSUME NEW q \in Use
      PROVE  /\ op(q) \in OpRecord /\ op(q).buf = buf_op[q].buf /\ op(q).blockno = buf_op[q].blockno
             /\ q = p => op(q).at = "drop"
             /\ q # p /\ buf_op[q].at = "asleep" /\ buf_op[q].buf = m => op(q).at = "lock"
             /\ q # p /\ ~(buf_op[q].at = "asleep" /\ buf_op[q].buf = m) => op(q).at = buf_op[q].at
  <2>1. CASE q = p
    BY Zenon, <1>2, <2>1 DEF OpRecord
  <2>2. CASE q # p /\ buf_op[q].at = "asleep" /\ buf_op[q].buf = m
    BY Zenon, <1>2, <2>2 DEF OpRecord
  <2>3. CASE q # p /\ ~(buf_op[q].at = "asleep" /\ buf_op[q].buf = m)
    <3>1. op(q) = buf_op[q]
      BY Zenon, <2>3
    <3> HIDE DEF op
    <3> QED BY <1>2, <2>3, <3>1
  <2> HIDE DEF op
  <2> QED BY Zenon, <2>1, <2>2, <2>3
<1> HIDE DEF op
<1>5. BufferCacheTypeOK'
  <2>1. [bcache[m] EXCEPT !.locked = NoBuf] \in BufRecord
    BY Zenon, <1>1, <1>2, LockUpdate
  <2>2. buf_op' \in [Use -> OpRecord]
    BY Zenon, <1>3, <1>4
  <2> QED BY Zenon, <1>2, <1>3, <2>1, <2>2 DEF BufferCacheTypeOK, BufRecord, OpRecord
<1>6. \A q \in Use : buf_op'[q] = op(q)
  BY Zenon, <1>3
<1>7. /\ \A i \in Buf : /\ bcache'[i].refcnt = bcache[i].refcnt /\ bcache'[i].pinned = bcache[i].pinned
                        /\ bcache'[i].blockno = bcache[i].blockno
                        /\ bcache'[i].locked = IF i = m THEN NoBuf ELSE bcache[i].locked
  BY <1>2, <1>3 DEF BufRecord
<1> HIDE DEF m
<1>8. RefcntExact'
  BY <1>3, <1>4, CountsKept
<1>9. OneBufferPerBlock' /\ HasBuffer'
  BY <1>1, <1>4, <1>6, <1>7 DEF BufInv, OneBufferPerBlock, HasBuffer, buf_at, mine
<1>10. BufferSleepersMustWait'
  BY <1>4, <1>6, <1>7 DEF BufInv, BufferSleepersMustWait, HasBuffer, buf_at, mine
<1>11. LockExact'
  BY <1>1, <1>4, <1>6, <1>7 DEF BufInv, LockExact, InLock
<1>12. \A q \in Use : buf_op'[q].at = "unpin" => bcache'[buf_op'[q].buf].pinned = 1
  BY <1>4, <1>6, <1>7 DEF BufInv, PinExact, HasBuffer
<1> QED BY Zenon, <1>5, <1>8, <1>9, <1>10, <1>11, <1>12 DEF BufInv, PinExact

-----------------------------------------------------------------------------
LEMMA PinnedFinite == IsFiniteSet(pinned) /\ Cardinality(pinned) \in Nat
<1>1. IsFiniteSet(Buf)
  BY BufferCacheAssumption, FS_Interval DEF Buf
<1>2. pinned \subseteq Buf
  BY Zenon DEF pinned
<1> QED BY Zenon, <1>1, <1>2, FS_Subset, FS_CardinalityType

LEMMA PinKeeps ==
  ASSUME BufInv, NEW p \in Use, bpin(p) PROVE BufInv'
<1> USE BufferCacheAssumption
<1> DEFINE m == buf_op[p].buf
<1>1. buf_op[p].at = "changed" /\ m \in Buf
  BY Zenon, HoldsBuffer DEF bpin, buf_at, mine
<1>2. /\ disk_block \in [BlockNo -> BlockValue] /\ bcache \in [Buf -> BufRecord]
      /\ lru \in [1 .. NBUF -> Buf] /\ buf_op \in [Use -> OpRecord]
  BY Zenon, BufTypes DEF BufInv
<1>3. /\ bcache' = IF bcache[m].pinned = 0
                   THEN [bcache EXCEPT ![m].refcnt = @ + 1, ![m].pinned = 1]
                   ELSE bcache
      /\ buf_op' = [buf_op EXCEPT ![p].at = "held"]
      /\ disk_block' = disk_block /\ lru' = lru
  BY Zenon DEF bpin, mine, buf_goto
<1>4. BufferCacheTypeOK'
  <2>1. [bcache[m] EXCEPT !.refcnt = @ + 1, !.pinned = 1] \in BufRecord
    <3>1. bcache[m] \in BufRecord /\ 1 \in 0 .. 1 /\ bcache[m].refcnt + 1 \in Nat
      BY <1>1, <1>2 DEF BufRecord
    <3> HIDE DEF m
    <3> QED BY Zenon, <3>1, PinUpdate
  <2>2. [buf_op[p] EXCEPT !.at = "held"] \in OpRecord
    BY Zenon, <1>2 DEF OpRecord
  <2> QED BY Zenon, <1>2, <1>3, <2>1, <2>2 DEF BufferCacheTypeOK, BufRecord, OpRecord
<1>5. \A q \in Use : /\ buf_op'[q].buf = buf_op[q].buf /\ buf_op'[q].blockno = buf_op[q].blockno
                     /\ buf_op'[q].at = IF q = p THEN "held" ELSE buf_op[q].at
  BY <1>2, <1>3
<1>6. \A i \in Buf : /\ bcache'[i].blockno = bcache[i].blockno /\ bcache'[i].locked = bcache[i].locked
                     /\ i # m \/ bcache[m].pinned # 0 =>
                          bcache'[i].refcnt = bcache[i].refcnt /\ bcache'[i].pinned = bcache[i].pinned
                     /\ i = m /\ bcache[m].pinned = 0 =>
                          bcache'[i].refcnt = bcache[i].refcnt + 1 /\ bcache'[i].pinned = 1
  BY <1>2, <1>3
<1>7. \A i \in Buf : bcache[i].refcnt \in Nat /\ bcache[i].pinned \in 0 .. 1
  BY Zenon, <1>2 DEF BufRecord
<1> HIDE DEF m
<1>8. RefcntExact'
  <2>1. ASSUME NEW i \in Buf
        PROVE  bcache'[i].refcnt = Cardinality({q \in Use : mine(q)' = i}) + bcache'[i].pinned
    <3> DEFINE S == {q \in Use : mine(q) = i}
    <3>1. {q \in Use : mine(q)' = i} = S
      BY Zenon, <1>5 DEF mine
    <3>2. bcache[i].refcnt = Cardinality(S) + bcache[i].pinned
      BY Zenon DEF BufInv, RefcntExact
    <3>3. Cardinality(S) \in Nat
      BY Zenon, UsersCount
    <3> HIDE DEF S
    <3>4. bcache'[i].refcnt = Cardinality(S) + bcache'[i].pinned
      BY <1>6, <3>2, <3>3
    <3> QED BY Zenon, <3>1, <3>4
  <2> QED BY Zenon, <1>3, <2>1 DEF BufInv, RefcntExact
<1>9. OneBufferPerBlock' /\ HasBuffer' /\ BufferSleepersMustWait'
  BY <1>1, <1>5, <1>6 DEF BufInv, OneBufferPerBlock, HasBuffer, BufferSleepersMustWait,
     buf_at, mine
<1>10. LockExact'
  BY <1>1, <1>5, <1>6 DEF BufInv, LockExact, InLock
<1>12. \A q \in Use : buf_op'[q].at = "unpin" => bcache'[buf_op'[q].buf].pinned = 1
  BY <1>5, <1>6 DEF BufInv, PinExact, HasBuffer
<1> QED BY Zenon, <1>4, <1>8, <1>9, <1>10, <1>12 DEF BufInv, PinExact


LEMMA UnpinKeeps ==
  ASSUME BufInv, NEW p \in Use, bunpin(p) PROVE BufInv'
<1> USE BufferCacheAssumption
<1> DEFINE m == buf_op[p].buf
<1>1. /\ buf_op[p].at = "unpin" /\ m \in Buf /\ bcache[m].refcnt > 0
      /\ bcache[m].pinned = 1
  BY Zenon, HoldsBuffer DEF bunpin, buf_at, BufInv, PinExact
<1>2. /\ disk_block \in [BlockNo -> BlockValue] /\ bcache \in [Buf -> BufRecord]
      /\ lru \in [1 .. NBUF -> Buf] /\ buf_op \in [Use -> OpRecord]
  BY Zenon, BufTypes DEF BufInv
<1>3. /\ bcache' = [bcache EXCEPT ![m].refcnt = @ - 1, ![m].pinned = 0]
      /\ buf_op' = [buf_op EXCEPT ![p].at = "held"]
      /\ disk_block' = disk_block /\ lru' = lru
  BY Zenon DEF bunpin, mine, buf_goto
<1>4. BufferCacheTypeOK'
  <2>1. [bcache[m] EXCEPT !.refcnt = @ - 1, !.pinned = 0] \in BufRecord
    <3>1. bcache[m] \in BufRecord /\ 0 \in 0 .. 1 /\ bcache[m].refcnt - 1 \in Nat
      BY <1>1, <1>2 DEF BufRecord
    <3> HIDE DEF m
    <3> QED BY Zenon, <3>1, PinUpdate
  <2>2. [buf_op[p] EXCEPT !.at = "held"] \in OpRecord
    BY Zenon, <1>2 DEF OpRecord
  <2> QED BY Zenon, <1>2, <1>3, <2>1, <2>2 DEF BufferCacheTypeOK, BufRecord, OpRecord
<1>5. \A q \in Use : /\ buf_op'[q].buf = buf_op[q].buf /\ buf_op'[q].blockno = buf_op[q].blockno
                     /\ buf_op'[q].at = IF q = p THEN "held" ELSE buf_op[q].at
  BY <1>2, <1>3
<1>6. \A i \in Buf : /\ bcache'[i].blockno = bcache[i].blockno /\ bcache'[i].locked = bcache[i].locked
                     /\ i # m => bcache'[i].refcnt = bcache[i].refcnt /\ bcache'[i].pinned = bcache[i].pinned
                     /\ i = m => bcache'[i].refcnt = bcache[i].refcnt - 1 /\ bcache'[i].pinned = 0
  BY <1>2, <1>3 DEF BufRecord
<1>7. \A i \in Buf : bcache[i].refcnt \in Nat /\ bcache[i].pinned \in 0 .. 1
  BY Zenon, <1>2 DEF BufRecord
<1> HIDE DEF m
<1>8. RefcntExact'
  <2>1. ASSUME NEW i \in Buf
        PROVE  bcache'[i].refcnt = Cardinality({q \in Use : mine(q)' = i}) + bcache'[i].pinned
    <3> DEFINE S == {q \in Use : mine(q) = i}
    <3>1. {q \in Use : mine(q)' = i} = S
      BY Zenon, <1>5 DEF mine
    <3>2. bcache[i].refcnt = Cardinality(S) + bcache[i].pinned
      BY Zenon DEF BufInv, RefcntExact
    <3>3. Cardinality(S) \in Nat
      BY Zenon, UsersCount
    <3> HIDE DEF S
    <3>4. bcache'[i].refcnt = Cardinality(S) + bcache'[i].pinned
      BY <1>1, <1>6, <3>2, <3>3
    <3> QED BY Zenon, <3>1, <3>4
  <2> QED BY Zenon, <1>3, <2>1 DEF BufInv, RefcntExact
<1>9. OneBufferPerBlock' /\ HasBuffer' /\ BufferSleepersMustWait'
  BY <1>1, <1>5, <1>6 DEF BufInv, OneBufferPerBlock, HasBuffer, BufferSleepersMustWait,
     buf_at, mine
<1>10. LockExact'
  BY <1>1, <1>5, <1>6 DEF BufInv, LockExact, InLock
<1>12. \A q \in Use : buf_op'[q].at = "unpin" => bcache'[buf_op'[q].buf].pinned = 1
  BY <1>1, <1>5, <1>6 DEF BufInv, PinExact, HasBuffer, LockExact, InLock, m
<1> QED BY Zenon, <1>4, <1>8, <1>9, <1>10, <1>12 DEF BufInv, PinExact

-----------------------------------------------------------------------------
(* bget and the end of brelse: a reference comes or goes.                  *)
LEMMA HitKeeps ==
  ASSUME BufInv, NEW p \in Use, NEW b \in BlockNo, bget_hit(p, b) PROVE BufInv'
<1> USE BufferCacheAssumption
<1> PICK m \in Buf :
      /\ bcache[m].blockno = b
      /\ bcache' = [bcache EXCEPT ![m].refcnt = @ + 1]
      /\ buf_op' = [buf_op EXCEPT ![p] = [at |-> "lock", blockno |-> b, buf |-> m]]
  BY Zenon DEF bget_hit, asks, cached
<1>1. /\ buf_op[p].at = "none" /\ buf_op[p].buf = 0 /\ disk_block' = disk_block /\ lru' = lru
      /\ m # 0
  BY Zenon, BufNumbers DEF bget_hit, asks, buf_at, BufInv, HasBuffer
<1>2. /\ disk_block \in [BlockNo -> BlockValue] /\ bcache \in [Buf -> BufRecord]
      /\ lru \in [1 .. NBUF -> Buf] /\ buf_op \in [Use -> OpRecord]
  BY Zenon, BufTypes DEF BufInv
<1>3. \A i \in Buf : bcache[i].refcnt \in Nat /\ bcache[i].pinned \in 0 .. 1
  BY Zenon, <1>2 DEF BufRecord
<1>4. BufferCacheTypeOK'
  <2>1. [bcache[m] EXCEPT !.refcnt = @ + 1] \in BufRecord
    <3>1. bcache[m] \in BufRecord /\ bcache[m].refcnt + 1 \in Nat
      BY <1>2, <1>3
    <3> QED BY Zenon, <3>1, CountUpdate
  <2>2. [at |-> "lock", blockno |-> b, buf |-> m] \in OpRecord
    BY Zenon DEF OpRecord
  <2> QED BY Zenon, <1>1, <1>2, <2>1 DEF BufferCacheTypeOK, BufRecord, OpRecord
<1>5. \A q \in Use :
        /\ q # p => buf_op'[q] = buf_op[q]
        /\ q = p => buf_op'[q].at = "lock" /\ buf_op'[q].blockno = b /\ buf_op'[q].buf = m
  BY Zenon, <1>2
<1>6. \A i \in Buf :
        /\ bcache'[i].blockno = bcache[i].blockno /\ bcache'[i].locked = bcache[i].locked
        /\ bcache'[i].pinned = bcache[i].pinned
        /\ bcache'[i].refcnt = IF i = m THEN bcache[i].refcnt + 1 ELSE bcache[i].refcnt
  BY <1>2
<1>7. RefcntExact'
  <2>1. ASSUME NEW i \in Buf
        PROVE  bcache'[i].refcnt = Cardinality({q \in Use : mine(q)' = i}) + bcache'[i].pinned
    <3> DEFINE S == {q \in Use : mine(q) = i}
    <3>1. /\ i = m => {q \in Use : mine(q)' = i} = S \cup {p} /\ p \notin S
          /\ i # m => {q \in Use : mine(q)' = i} = S
      BY <1>1, <1>5, BufNumbers DEF mine
    <3>2. bcache[i].refcnt = Cardinality(S) + bcache[i].pinned
      BY Zenon DEF BufInv, RefcntExact
    <3>3. Cardinality(S) \in Nat /\ (p \notin S => Cardinality(S \cup {p}) = Cardinality(S) + 1)
      BY Zenon, UsersCount
    <3> HIDE DEF S
    <3>4. CASE i = m
      <4>1. bcache'[i].refcnt = Cardinality(S) + 1 + bcache'[i].pinned
        BY <1>3, <1>6, <3>2, <3>3, <3>4
      <4> QED BY Zenon, <3>1, <3>3, <3>4, <4>1
    <3>5. CASE i # m
      BY Zenon, <1>6, <3>1, <3>2, <3>5
    <3> QED BY Zenon, <3>4, <3>5
  <2> QED BY Zenon, <1>1, <2>1 DEF BufInv, RefcntExact
<1>8. OneBufferPerBlock' /\ HasBuffer' /\ BufferSleepersMustWait'
  BY DEF BufInv, OneBufferPerBlock, HasBuffer, BufferSleepersMustWait, buf_at, mine
<1>9. LockExact'
  BY <1>1 DEF BufInv, LockExact, InLock
<1>10. PinExact'
  BY <1>1 DEF BufInv, PinExact
<1> QED BY Zenon, <1>4, <1>7, <1>8, <1>9, <1>10 DEF BufInv

(* A buffer without references is nobody's: no lock, no pin, no user.      *)
LEMMA FreeIsNobodys ==
  ASSUME BufInv, NEW i \in Buf, bcache[i].refcnt = 0
  PROVE  /\ bcache[i].pinned = 0 /\ bcache[i].locked = NoBuf
         /\ \A q \in Use : buf_op[q].buf # i
<1> DEFINE S == {q \in Use : mine(q) = i}
<1>1. bcache[i].refcnt = Cardinality(S) + bcache[i].pinned
  BY Zenon DEF BufInv, RefcntExact
<1>2. Cardinality(S) \in Nat /\ (Cardinality(S) = 0 => S = {})
  BY Zenon, UsersCount
<1>3. bcache[i].pinned \in 0 .. 1 /\ bcache[i].locked \in Use \cup {NoBuf}
  BY Zenon, BufTypes DEF BufInv, BufRecord
<1>4. S = {} /\ bcache[i].pinned = 0
  <2> HIDE DEF S
  <2> QED BY <1>1, <1>2, <1>3
<1>5. \A q \in Use : buf_op[q].buf # i
  BY Zenon, <1>4 DEF mine
<1> QED BY <1>3, <1>4, <1>5 DEF BufInv, LockExact

LEMMA RecycleKeeps ==
  ASSUME BufInv, NEW p \in Use, NEW b \in BlockNo, bget_recycle(p, b) PROVE BufInv'
<1> USE BufferCacheAssumption
<1>2. /\ disk_block \in [BlockNo -> BlockValue] /\ bcache \in [Buf -> BufRecord]
      /\ lru \in [1 .. NBUF -> Buf] /\ buf_op \in [Use -> OpRecord]
  BY Zenon, BufTypes DEF BufInv
<1>0. PICK m \in Buf :
      /\ bcache[m].refcnt = 0
      /\ bcache' = [bcache EXCEPT ![m].blockno = b, ![m].valid = 0, ![m].refcnt = 1, ![m].data = BlockZero]
      /\ buf_op' = [buf_op EXCEPT ![p] = [at |-> "lock", blockno |-> b, buf |-> m]]
  BY Zenon, <1>2 DEF bget_recycle, asks, free_bufs
<1>1. /\ buf_op[p].at = "none" /\ buf_op[p].buf = 0 /\ disk_block' = disk_block /\ lru' = lru
      /\ m # 0 /\ \A i \in Buf : bcache[i].blockno # b
  BY Zenon, BufNumbers DEF bget_recycle, asks, buf_at, cached, BufInv, HasBuffer
<1>3. /\ bcache[m].pinned = 0 /\ bcache[m].locked = NoBuf
      /\ \A q \in Use : buf_op[q].buf # m
  BY Zenon, <1>0, FreeIsNobodys
<1>4. BufferCacheTypeOK'
  <2>1. [bcache[m] EXCEPT !.blockno = b, !.valid = 0, !.refcnt = 1, !.data = BlockZero] \in BufRecord
    <3>1. bcache[m] \in BufRecord /\ 0 \in 0 .. 1 /\ 1 \in Nat /\ BlockZero \in BlockValue
      BY <1>2
    <3> QED BY Zenon, <3>1, RecycleUpdate
  <2>2. [at |-> "lock", blockno |-> b, buf |-> m] \in OpRecord
    BY Zenon DEF OpRecord
  <2> QED BY <1>0, <1>2 DEF BufRecord
<1>5. \A q \in Use :
        /\ q # p => buf_op'[q] = buf_op[q]
        /\ q = p => buf_op'[q].at = "lock" /\ buf_op'[q].blockno = b /\ buf_op'[q].buf = m
  BY Zenon, <1>0, <1>2
<1>6. \A i \in Buf :
        /\ bcache'[i].blockno = IF i = m THEN b ELSE bcache[i].blockno
        /\ bcache'[i].locked = bcache[i].locked /\ bcache'[i].pinned = bcache[i].pinned
        /\ bcache'[i].refcnt = IF i = m THEN 1 ELSE bcache[i].refcnt
  BY <1>0, <1>2
<1>7. RefcntExact'
  <2>1. ASSUME NEW i \in Buf
        PROVE  bcache'[i].refcnt = Cardinality({q \in Use : mine(q)' = i}) + bcache'[i].pinned
    <3>1. CASE i = m
      <4>1. {q \in Use : mine(q)' = i} = {p}
        BY <1>3, <1>5, <3>1 DEF mine
      <4>2. Cardinality({p}) = 1
        BY Zenon, FS_Singleton
      <4>3. bcache'[i].refcnt = 1 /\ bcache'[i].pinned = 0
        BY Zenon, <1>3, <1>6, <3>1
      <4> QED BY <4>1, <4>2, <4>3
    <3>2. CASE i # m
      <4>1. {q \in Use : mine(q)' = i} = {q \in Use : mine(q) = i}
        BY <1>1, <1>5, <3>2, BufNumbers DEF mine
      <4> QED BY Zenon, <1>6, <3>2, <4>1 DEF BufInv, RefcntExact
    <3> QED BY Zenon, <3>1, <3>2
  <2> QED BY Zenon, <1>1, <2>1 DEF BufInv, RefcntExact
<1>8. OneBufferPerBlock' /\ HasBuffer' /\ BufferSleepersMustWait'
  <2>1. OneBufferPerBlock'
    BY <1>1, <1>3, <1>5, <1>6 DEF BufInv, OneBufferPerBlock, HasBuffer, buf_at, mine
  <2>2. HasBuffer' /\ BufferSleepersMustWait'
    BY <1>5, <1>6 DEF BufInv, HasBuffer, BufferSleepersMustWait, buf_at, mine
  <2> QED BY Zenon, <2>1, <2>2
<1>9. LockExact'
  BY <1>1, <1>5, <1>6 DEF BufInv, LockExact, InLock
<1>10. PinExact'
  BY <1>5, <1>6 DEF BufInv, PinExact, HasBuffer
<1> QED BY Zenon, <1>4, <1>7, <1>8, <1>9, <1>10 DEF BufInv

LEMMA UnrefKeeps ==
  ASSUME BufInv, NEW p \in Use, brelse_unref(p) PROVE BufInv'
<1> USE BufferCacheAssumption
<1> DEFINE m == buf_op[p].buf
<1>1. /\ buf_op[p].at = "drop" /\ m \in Buf /\ m # 0 /\ bcache[m].refcnt > 0
  BY Zenon, HoldsBuffer, BufNumbers DEF brelse_unref, buf_at
<1>2. /\ disk_block \in [BlockNo -> BlockValue] /\ bcache \in [Buf -> BufRecord]
      /\ lru \in [1 .. NBUF -> Buf] /\ buf_op \in [Use -> OpRecord]
  BY Zenon, BufTypes DEF BufInv
<1>3. /\ bcache' = [bcache EXCEPT ![m].refcnt = @ - 1]
      /\ buf_op' = [buf_op EXCEPT ![p] = [at |-> "none", blockno |-> NoBuf, buf |-> 0]]
      /\ disk_block' = disk_block /\ lru' \in {lru, to_front(m)}
  BY Zenon DEF brelse_unref, mine, no_buf
<1>11. \A i \in Buf : bcache[i].refcnt \in Nat /\ bcache[i].pinned \in 0 .. 1
  BY Zenon, <1>2 DEF BufRecord
<1>12. lru' \in [1 .. NBUF -> Buf] /\ Range(lru') = Buf
  BY Zenon, <1>1, <1>2, <1>3, ToFront DEF BufInv, RefcntExact
<1>4. BufferCacheTypeOK'
  <2>1. [bcache[m] EXCEPT !.refcnt = @ - 1] \in BufRecord
    <3>1. bcache[m] \in BufRecord /\ bcache[m].refcnt - 1 \in Nat
      BY <1>1, <1>2, <1>11
    <3> HIDE DEF m
    <3> QED BY Zenon, <3>1, CountUpdate
  <2>2. [at |-> "none", blockno |-> NoBuf, buf |-> 0] \in OpRecord
    BY Zenon DEF OpRecord
  <2> QED BY Zenon, <1>2, <1>3, <1>12, <2>1 DEF BufferCacheTypeOK, BufRecord, OpRecord
<1>5. \A q \in Use :
        /\ q # p => buf_op'[q] = buf_op[q]
        /\ q = p => buf_op'[q].at = "none" /\ buf_op'[q].buf = 0
  BY Zenon, <1>2, <1>3
<1>6. \A i \in Buf :
        /\ bcache'[i].blockno = bcache[i].blockno /\ bcache'[i].locked = bcache[i].locked
        /\ bcache'[i].pinned = bcache[i].pinned
        /\ bcache'[i].refcnt = IF i = m THEN bcache[i].refcnt - 1 ELSE bcache[i].refcnt
  BY <1>2, <1>3
<1>7. RefcntExact'
  <2>1. ASSUME NEW i \in Buf
        PROVE  bcache'[i].refcnt = Cardinality({q \in Use : mine(q)' = i}) + bcache'[i].pinned
    <3> DEFINE S == {q \in Use : mine(q) = i}
    <3>1. /\ i = m => {q \in Use : mine(q)' = i} = S \ {p} /\ p \in S
          /\ i # m => {q \in Use : mine(q)' = i} = S
      BY Zenon, <1>5, BufNumbers DEF mine
    <3>2. bcache[i].refcnt = Cardinality(S) + bcache[i].pinned
      BY Zenon DEF BufInv, RefcntExact
    <3>3. Cardinality(S) \in Nat /\ (p \in S => Cardinality(S \ {p}) = Cardinality(S) - 1)
      BY Zenon, UsersCount
    <3> HIDE DEF S, m
    <3>4. CASE i = m
      <4>1. bcache'[i].refcnt = (Cardinality(S) - 1) + bcache'[i].pinned
        BY <1>6, <1>11, <3>2, <3>3, <3>4
      <4> QED BY Zenon, <3>1, <3>3, <3>4, <4>1
    <3>5. CASE i # m
      BY Zenon, <1>6, <3>1, <3>2, <3>5
    <3> QED BY Zenon, <3>4, <3>5
  <2> QED BY Zenon, <1>12, <2>1 DEF RefcntExact
<1>8. OneBufferPerBlock' /\ HasBuffer' /\ BufferSleepersMustWait'
  BY <1>5, <1>6 DEF BufInv, OneBufferPerBlock, HasBuffer, BufferSleepersMustWait, buf_at,
     mine
<1>9. LockExact'
  BY <1>1, <1>5, <1>6 DEF BufInv, LockExact, InLock
<1>10. PinExact'
  BY <1>5, <1>6 DEF BufInv, PinExact, HasBuffer
<1> QED BY Zenon, <1>4, <1>7, <1>8, <1>9, <1>10 DEF BufInv

(* The panic changes nothing but where the process is.                     *)
LEMMA PanicKeeps ==
  ASSUME BufInv, NEW p \in Use, NEW b \in BlockNo, bget_panic(p, b) PROVE BufInv'
<1>1. /\ buf_op[p].at = "none" /\ buf_op' = [buf_op EXCEPT ![p].at = "panic"]
      /\ disk_block' = disk_block /\ bcache' = bcache /\ lru' = lru
  BY Zenon DEF bget_panic, asks, buf_at, buf_goto
<1>2. /\ disk_block \in [BlockNo -> BlockValue] /\ bcache \in [Buf -> BufRecord]
      /\ lru \in [1 .. NBUF -> Buf] /\ buf_op \in [Use -> OpRecord]
  BY Zenon, BufTypes DEF BufInv
<1>3. BufferCacheTypeOK'
  <2>1. [buf_op[p] EXCEPT !.at = "panic"] \in OpRecord
    BY Zenon, <1>2 DEF OpRecord
  <2> QED BY Zenon, <1>1, <1>2, <2>1 DEF BufferCacheTypeOK, BufRecord, OpRecord
<1>4. \A q \in Use : /\ buf_op'[q].buf = buf_op[q].buf /\ buf_op'[q].blockno = buf_op[q].blockno
                     /\ buf_op'[q].at = IF q = p THEN "panic" ELSE buf_op[q].at
  BY <1>1, <1>2
<1>5. RefcntExact'
  BY Zenon, <1>1, <1>4, CountsKept
<1>6. OneBufferPerBlock' /\ HasBuffer' /\ BufferSleepersMustWait'
  BY <1>1, <1>4 DEF BufInv, OneBufferPerBlock, HasBuffer, BufferSleepersMustWait, buf_at, mine
<1>7. LockExact' /\ PinExact'
  BY <1>1, <1>4 DEF BufInv, LockExact, InLock, PinExact
<1> QED BY Zenon, <1>3, <1>5, <1>6, <1>7 DEF BufInv

-----------------------------------------------------------------------------
LEMMA BufNextInv == BufInv /\ [BufferCacheNext]_bufVars => BufInv'
<1> SUFFICES ASSUME BufInv, [BufferCacheNext]_bufVars PROVE BufInv'
  OBVIOUS
<1>1. CASE UNCHANGED bufVars
  BY <1>1 DEF bufVars, BufInv, BufferCacheTypeOK, OneBufferPerBlock, RefcntExact,
     BufferSleepersMustWait, HasBuffer, LockExact, PinExact, pinned, buf_at, mine
<1>2. CASE BufferCacheNext
  <2>1. PICK p \in Use :
          \/ buf_step(p) \/ acquiresleep(p) \/ bpin(p) \/ bwrite(p) \/ panic_loop(p)
          \/ \E b \in BlockNo : bget_hit(p, b) \/ bget_recycle(p, b) \/ bget_panic(p, b)
          \/ \E v \in BlockValue : change(p, v)
    BY Zenon, <1>2 DEF BufferCacheNext
  <2>2. CASE buf_step(p)
    BY Zenon, <2>2, SleepKeeps, ReadKeeps, UnpinKeeps, UnlockKeeps, UnrefKeeps DEF
       buf_step
  <2>3. CASE acquiresleep(p) \/ bpin(p) \/ bwrite(p)
    BY Zenon, <2>3, AcquireKeeps, PinKeeps, WriteKeeps
  <2>4. CASE \E b \in BlockNo : bget_hit(p, b) \/ bget_recycle(p, b) \/ bget_panic(p, b)
    BY Zenon, <2>4, HitKeeps, RecycleKeeps, PanicKeeps
  <2>5. CASE \E v \in BlockValue : change(p, v)
    BY Zenon, <2>5, ChangeKeeps
  <2>6. CASE panic_loop(p)
    BY Zenon, <1>1, <2>6 DEF panic_loop
  <2> QED BY Zenon, <2>1, <2>2, <2>3, <2>4, <2>5, <2>6
<1> QED BY Zenon, <1>1, <1>2

(* If every buffer has a reference, each one that is not pinned has a use  *)
(* of its own.                                                             *)
LEMMA BufferLeft == BufInv => PanicOnlyWhenFull
<1> DEFINE Others == {q \in Use : mine(q) # 0}
<1> SUFFICES ASSUME BufInv, free_bufs = {}, Cardinality(Others) + Cardinality(pinned) < NBUF PROVE FALSE
  BY Zenon DEF PanicOnlyWhenFull
<1> DEFINE U == Buf \ pinned
           f == [i \in U |-> CHOOSE q \in Use : buf_op[q].buf = i]
<1>2. ASSUME NEW i \in U PROVE \E q \in Use : buf_op[q].buf = i
  <2> DEFINE S == {q \in Use : mine(q) = i}
  <2>1. \E k \in 1 .. NBUF : lru[k] = i
    <3>1. DOMAIN lru = 1 .. NBUF /\ Range(lru) = Buf
      BY Zenon, BufTypes DEF BufInv, RefcntExact
    <3> QED BY Zenon, <3>1 DEF Range
  <2>2. bcache[i].refcnt # 0
    BY Zenon, <2>1 DEF free_bufs
  <2>3. bcache[i].pinned = 0
    BY BufTypes DEF pinned, BufInv, BufRecord
  <2>4. bcache[i].refcnt = Cardinality(S) + bcache[i].pinned
    BY Zenon DEF BufInv, RefcntExact
  <2>5. Cardinality(S) \in Nat /\ (S = {} => Cardinality(S) = 0)
    BY Zenon, UsersCount
  <2>6. S # {}
    <3> HIDE DEF S
    <3> QED BY <2>2, <2>3, <2>4, <2>5
  <2> QED BY Zenon, <2>6 DEF mine
<1>3. \A i \in U : f[i] \in Others /\ buf_op[f[i]].buf = i
  BY Zenon, <1>2, BufNumbers DEF mine
<1>4. f \in Injection(U, Others)
  <2>1. f \in [U -> Others]
    <3>1. f = [i \in U |-> f[i]]
      OBVIOUS
    <3> HIDE DEF f, U, Others
    <3> QED BY Zenon, <1>3, <3>1
  <2> HIDE DEF f, U, Others
  <2> QED BY <1>3, <2>1 DEF Injection, IsInjective
<1>5. IsFiniteSet(Others)
  BY Zenon, UseFinite, FS_Subset
<1>6. Cardinality(U) <= Cardinality(Others)
  <2> HIDE DEF f, U, Others
  <2> QED BY Zenon, <1>4, <1>5, FS_Injection
<1>7. Cardinality(U) = NBUF - Cardinality(pinned)
  <2>1. IsFiniteSet(Buf) /\ Cardinality(Buf) = NBUF
    BY BufferCacheAssumption, FS_Interval DEF Buf
  <2>2. Buf \cap pinned = pinned
    BY Zenon DEF pinned
  <2> QED BY <2>1, <2>2, FS_Difference
<1>8. Cardinality(pinned) \in Nat /\ Cardinality(Others) \in Nat
  BY Zenon, <1>5, PinnedFinite, FS_CardinalityType
<1> HIDE DEF U, Others
<1> QED BY <1>6, <1>7, <1>8, BufferCacheAssumption

(* The books of the cache are right whatever the number of processes,      *)
(* buffers and blocks: one buffer per block, a reference for every user    *)
(* and every pin, a panic of bget only when every buffer is in use, and no *)
(* process asleep for a lock that is free.                                 *)
THEOREM BufferCacheSound == BufferCacheSpec => []BuffersExact
<1>1. BufInv => BuffersExact
  BY Zenon, BufferLeft DEF BufInv, BuffersExact
<1> QED BY <1>1, BufInitInv, BufNextInv, PTL DEF BufferCacheSpec
=============================================================================
