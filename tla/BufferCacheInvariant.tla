------------------------ MODULE BufferCacheInvariant ------------------------
(***************************************************************************)
(* The inductive invariant of the buffer cache.  It adds to BuffersExact   *)
(* what ties the three locks together: a reference belongs to a process or *)
(* to the log, a sleep-lock to the process that is past acquiresleep, and  *)
(* a pin goes only under that lock.                                        *)
(***************************************************************************)
EXTENDS BufferCache

BufRecord ==
  [blockno : BlockNo \cup {NoBuf}, valid : 0 .. 1, refcnt : Nat, data : BlockValue,
   locked : Use \cup {NoBuf}, pinned : 0 .. 1]

OpRecord ==
  [at : {"none", "lock", "asleep", "read", "held", "changed", "unpin", "drop", "panic"},
   blockno : BlockNo \cup {NoBuf}, buf : Buf \cup {0}]

InLock == {"read", "held", "changed", "unpin"}

(* A process past bget has a buffer and a block.                           *)
HasBuffer ==
  \A p \in Use : IF buf_op[p].at \in {"none", "panic"} THEN buf_op[p].buf = 0
                     ELSE buf_op[p].buf \in Buf /\ buf_op[p].blockno \in BlockNo

(* The sleep-lock is p's exactly while p is between acquiresleep and       *)
(* releasesleep.                                                           *)
LockExact ==
  \A p \in Use, i \in Buf :
    bcache[i].locked = p <=> buf_op[p].at \in InLock /\ buf_op[p].buf = i

PinExact ==
  \A p \in Use : buf_op[p].at = "unpin" => bcache[buf_op[p].buf].pinned = 1

BufInv ==
  /\ BufferCacheTypeOK
  /\ OneBufferPerBlock /\ RefcntExact /\ BufferSleepersMustWait
  /\ HasBuffer /\ LockExact /\ PinExact

=============================================================================
