----------------------------- MODULE LogStepProof -----------------------------
(***************************************************************************)
(* The steps of the log that count nothing keep its invariant, and every   *)
(* step of it is one of Transactions, or changes nothing that Transactions *)
(* sees, wherever the invariant holds.                                     *)
(***************************************************************************)
EXTENDS LogInvariant, TLAPS

USE SMTT(20) DEF disk, struct, bufcache, procs, goto

(* What LogInv says, in parts.                                             *)
LEMMA Parts ==
  LogInv => /\ Quiet /\ OneCommitter /\ Sleepers /\ Counts /\ Buffers
            /\ Written /\ Headers /\ Clean /\ Copied /\ Space /\ PinsExact
  BY Zenon DEF LogInv

LEMMA DiskTypes ==
  LogInv => /\ home \in [Block -> Value] /\ logblock \in [1 .. LOGBLOCKS -> Value]
            /\ cache \in [Block -> Value \cup {None}] /\ pins \in [Block -> Nat]
  BY Zenon DEF LogInv, TypeOK

LEMMA HeaderTypes ==
  LogInv => header \in Seq(Block) /\ lh \in Seq(Block) /\ tail \in 1 .. LOGBLOCKS + 1
  BY Zenon DEF LogInv, TypeOK

(* The calls in progress are counted as long as they are the same.         *)
LEMMA CallsKept ==
  ASSUME Counts, outstanding' = outstanding, \A q \in Proc : InOp(q)' <=> InOp(q)
  PROVE  Counts'
<1>1. active' = active
  BY Zenon DEF active
<1> QED BY Zenon, <1>1 DEF Counts

(* What a step leaves of Written, ...                                      *)
LEMMA WrittenKept ==
  ASSUME Written, lh' = lh,
         \A q \in Proc : /\ wrote'[q] = wrote[q]
                         /\ InOp(q) => InOp(q)'
                         /\ pc'[q] = "log_write" => Cardinality(wrote[q] \cup {buf'[q]}) <= OpBlocks
  PROVE  Written'
<1> SUFFICES ASSUME NEW q \in Proc
             PROVE  /\ IsFiniteSet(wrote'[q]) /\ Cardinality(wrote'[q]) <= OpBlocks
                    /\ ~InOp(q)' => wrote'[q] = {}
                    /\ \A b \in wrote'[q] : b \in Range(lh')
                    /\ pc'[q] = "log_write" => Cardinality(wrote'[q] \cup {buf'[q]}) <= OpBlocks
  BY Zenon DEF Written
<1> QED BY Zenon DEF Written

(* Recovery reads the header on the disk; nothing else runs.              *)
LEMMA Inv_read_head ==
  ASSUME LogInv, read_head PROVE LogInv'
<1>1. /\ boot = "read_head" /\ boot' = "install" /\ lh' = header /\ tail' = 1
      /\ UNCHANGED <<home, logblock, header, outstanding, committing, cache, pins>>
      /\ UNCHANGED <<pc, chan, buf, wrote, crashes>>
  BY Zenon DEF read_head
<1>2. \A q \in Proc : pc'[q] = "idle" /\ wrote'[q] = {}
  BY Zenon, <1>1 DEF LogInv, Quiet, InOp, Written
<1>3. TypeOK'
  BY <1>1, LogAssumption DEF LogInv, TypeOK
<1>4. Quiet' /\ OneCommitter'
  BY Zenon, <1>1 DEF LogInv, Quiet, OneCommitter, Committing
<1>5. Sleepers' /\ Buffers' /\ Clean'
  BY Zenon, <1>1 DEF LogInv, Sleepers, Buffers, Clean
<1>6. Counts'
  <2>1. outstanding' = outstanding /\ \A q \in Proc : InOp(q)' <=> InOp(q)
    BY Zenon, <1>1 DEF InOp
  <2> QED BY Zenon, <2>1, CallsKept DEF LogInv
<1>7. Headers'
  BY <1>1 DEF LogInv, Headers
<1>8. Written'
  <2>1. wrote' = wrote
    BY Zenon, <1>1
  <2> SUFFICES ASSUME NEW q \in Proc
               PROVE  /\ IsFiniteSet(wrote'[q]) /\ Cardinality(wrote'[q]) <= OpBlocks
                      /\ ~InOp(q)' => wrote'[q] = {}
                      /\ \A b \in wrote'[q] : b \in Range(lh')
                      /\ pc'[q] = "log_write" => Cardinality(wrote'[q] \cup {buf'[q]}) <= OpBlocks
    BY Zenon DEF Written
  <2> QED BY Zenon, <1>2, <2>1 DEF LogInv, Written
<1>9. ~ installing'
  BY Zenon, <1>2 DEF installing
<1>10. Copied'
  <2>1. \A i \in 1 .. Len(lh') : ~ (i < tail')
    BY <1>1
  <2> QED BY Zenon, <1>9, <2>1 DEF Copied
<1>11. Space' /\ PinsExact'
  BY Zenon, <1>1 DEF Space, PinsExact
<1> QED BY Zenon, <1>3, <1>4, <1>5, <1>6, <1>7, <1>8, <1>10, <1>11 DEF LogInv

(* LogInv is preserved by every step: first by those of begin_op.          *)
LEMMA Inv_begin_op_call ==
  ASSUME LogInv, NEW p \in Proc, begin_op_call(p) PROVE LogInv'
<1>1. Space'
  BY Zenon DEF LogInv, begin_op_call, Space, logged
<1>2. TypeOK'
  BY Zenon DEF LogInv, TypeOK, begin_op_call
<1>3. Quiet' /\ OneCommitter' /\ Sleepers'
  BY DEF LogInv, begin_op_call, Quiet, OneCommitter, InOp, Committing, Sleepers
<1>4. Counts' /\ Buffers'
  BY Zenon DEF LogInv, TypeOK, begin_op_call, Counts, active, InOp, Buffers
<1>5. Headers'
  BY DEF LogInv, begin_op_call, Headers, installing
<1>w. Written'
  <2>1. Written /\ lh' = lh /\ \A q \in Proc : wrote'[q] = wrote[q]
    BY Zenon DEF LogInv, begin_op_call
  <2>2. \A q \in Proc : /\ InOp(q) => InOp(q)'
                        /\ pc'[q] = "log_write" => Cardinality(wrote[q] \cup {buf'[q]}) <= OpBlocks
    BY Zenon DEF LogInv, TypeOK, begin_op_call, InOp, Written
  <2> QED BY Zenon, <2>1, <2>2, WrittenKept
<1>6. Clean' /\ Copied'
  BY DEF LogInv, begin_op_call, Clean, Copied, bread, installing
<1>7. PinsExact'
  BY Zenon DEF LogInv, TypeOK, begin_op_call, PinsExact
<1> QED BY Zenon, <1>w, <1>1, <1>2, <1>3, <1>4, <1>5, <1>6, <1>7 DEF LogInv

LEMMA Inv_begin_op_committing ==
  ASSUME LogInv, NEW p \in Proc, begin_op_committing(p) PROVE LogInv'
<1>1. Space'
  BY Zenon DEF LogInv, begin_op_committing, sleep, Space, logged
<1>2. TypeOK'
  BY Zenon DEF LogInv, TypeOK, begin_op_committing, sleep
<1>3. Quiet' /\ OneCommitter' /\ Sleepers'
  BY Zenon DEF LogInv, TypeOK, begin_op_committing, sleep, Quiet, OneCommitter, InOp,
     Committing, Sleepers
<1>4. Counts' /\ Buffers'
  BY Zenon DEF LogInv, TypeOK, begin_op_committing, sleep, Counts, active, InOp, Buffers
<1>5. Headers'
  BY DEF LogInv, begin_op_committing, sleep, Headers, installing
<1>w. Written'
  <2>1. Written /\ lh' = lh /\ \A q \in Proc : wrote'[q] = wrote[q]
    BY Zenon DEF LogInv, begin_op_committing, sleep
  <2>2. \A q \in Proc : /\ InOp(q) => InOp(q)'
                        /\ pc'[q] = "log_write" => Cardinality(wrote[q] \cup {buf'[q]}) <= OpBlocks
    BY DEF LogInv, begin_op_committing, sleep, InOp, Written
  <2> QED BY Zenon, <2>1, <2>2, WrittenKept
<1>6. Clean' /\ Copied'
  BY DEF LogInv, begin_op_committing, sleep, Clean, Copied, bread, installing
<1>7. PinsExact'
  <2>1. \A q \in Proc : pc'[q] = "install_trans" <=> pc[q] = "install_trans"
    BY Zenon DEF LogInv, TypeOK, begin_op_committing, sleep
  <2>2. UNCHANGED <<lh, cache, pins, tail, boot>>
    BY Zenon DEF begin_op_committing, sleep
  <2> QED BY Zenon, <2>1, <2>2 DEF LogInv, PinsExact
<1> QED BY Zenon, <1>w, <1>1, <1>2, <1>3, <1>4, <1>5, <1>6, <1>7 DEF LogInv

LEMMA Inv_begin_op_no_space ==
  ASSUME LogInv, NEW p \in Proc, begin_op_no_space(p) PROVE LogInv'
<1>1. Space'
  BY Zenon DEF LogInv, begin_op_no_space, sleep, Space, logged
<1>2. TypeOK'
  BY Zenon DEF LogInv, TypeOK, begin_op_no_space, sleep
<1>3. Quiet' /\ OneCommitter' /\ Sleepers'
  BY DEF LogInv, TypeOK, begin_op_no_space, sleep, Quiet, OneCommitter, Committing,
     Sleepers
<1>4. Counts' /\ Buffers'
  BY Zenon DEF LogInv, TypeOK, begin_op_no_space, sleep, Counts, active, InOp, Buffers
<1>5. Headers'
  BY DEF LogInv, begin_op_no_space, sleep, Headers, installing
<1>w. Written'
  <2>1. Written /\ lh' = lh /\ \A q \in Proc : wrote'[q] = wrote[q]
    BY Zenon DEF LogInv, begin_op_no_space, sleep
  <2>2. \A q \in Proc : /\ InOp(q) => InOp(q)'
                        /\ pc'[q] = "log_write" => Cardinality(wrote[q] \cup {buf'[q]}) <= OpBlocks
    BY DEF LogInv, begin_op_no_space, sleep, InOp, Written
  <2> QED BY Zenon, <2>1, <2>2, WrittenKept
<1>6. Clean' /\ Copied'
  BY DEF LogInv, begin_op_no_space, sleep, Clean, Copied, bread, installing
<1>7. PinsExact'
  <2>1. \A q \in Proc : pc'[q] = "install_trans" <=> pc[q] = "install_trans"
    BY Zenon DEF LogInv, TypeOK, begin_op_no_space, sleep
  <2>2. UNCHANGED <<lh, cache, pins, tail, boot>>
    BY Zenon DEF begin_op_no_space, sleep
  <2> QED BY Zenon, <2>1, <2>2 DEF LogInv, PinsExact
<1> QED BY Zenon, <1>w, <1>1, <1>2, <1>3, <1>4, <1>5, <1>6, <1>7 DEF LogInv

(* A call gets hold of a buffer that nobody else has, and changes it.      *)
LEMMA Inv_modify ==
  ASSUME LogInv, NEW p \in Proc, NEW b \in Block, NEW v \in Value, modify(p, b, v) PROVE LogInv'
<1>1. TypeOK'
  BY Zenon DEF LogInv, TypeOK, modify
<1>2. Quiet' /\ OneCommitter' /\ Sleepers'
  BY DEF LogInv, modify, Quiet, OneCommitter, InOp, Committing, Sleepers
<1>3. Counts'
  BY Zenon DEF LogInv, TypeOK, modify, Counts, active, InOp
<1>4. Buffers'
  BY Zenon, LogAssumption DEF LogInv, TypeOK, modify, Buffers, locked
<1>5. Headers'
  BY DEF LogInv, modify, Headers, installing
<1>w. Written'
  <2>1. Written /\ lh' = lh /\ \A q \in Proc : wrote'[q] = wrote[q]
    BY Zenon DEF LogInv, modify, Written
  <2>2. \A q \in Proc : /\ InOp(q) => InOp(q)'
                        /\ pc'[q] = "log_write" => Cardinality(wrote[q] \cup {buf'[q]}) <= OpBlocks
    BY Zenon DEF LogInv, TypeOK, modify, InOp, Written
  <2> QED BY Zenon, <2>1, <2>2, WrittenKept
<1>6. Clean'
  BY Zenon DEF LogInv, TypeOK, modify, Clean
<1>7. Copied'
  BY DEF LogInv, modify, Copied, OneCommitter, installing, Committing, InOp
<1>8. Space'
  BY Zenon DEF LogInv, Space, logged, modify
<1>9. PinsExact'
  BY LogAssumption DEF LogInv, modify, PinsExact
<1> QED BY Zenon, <1>w, <1>1, <1>2, <1>3, <1>4, <1>5, <1>6, <1>7, <1>8, <1>9 DEF LogInv

(* A buffer is given back when the block is in the log.                    *)
LEMMA Inv_brelse ==
  ASSUME LogInv, NEW p \in Proc, brelse(p) PROVE LogInv'
<1>1. Space'
  BY Zenon DEF LogInv, brelse, Space, logged
<1>2. TypeOK'
  BY Zenon DEF LogInv, TypeOK, brelse
<1>3. Quiet' /\ OneCommitter' /\ Sleepers'
  BY DEF LogInv, brelse, Quiet, OneCommitter, InOp, Committing, Sleepers
<1>4. Counts'
  <2>1. Counts /\ outstanding' = outstanding
    BY Zenon DEF LogInv, brelse
  <2>2. \A q \in Proc : InOp(q)' <=> InOp(q)
    BY Zenon DEF LogInv, TypeOK, brelse, InOp
  <2> QED BY Zenon, <2>1, <2>2, CallsKept
<1>r. Buffers'
  BY Zenon DEF LogInv, TypeOK, brelse, Buffers
<1>5. Headers'
  BY DEF LogInv, brelse, Headers, installing
<1>w. Written'
  <2>1. Written /\ lh' = lh /\ \A q \in Proc : wrote'[q] = wrote[q]
    BY Zenon DEF LogInv, brelse
  <2>2. \A q \in Proc : /\ InOp(q) => InOp(q)'
                        /\ pc'[q] = "log_write" => Cardinality(wrote[q] \cup {buf'[q]}) <= OpBlocks
    BY Zenon DEF LogInv, TypeOK, brelse, InOp, Written
  <2> QED BY Zenon, <2>1, <2>2, WrittenKept
<1>6. Clean' /\ Copied'
  <2>1. \A q \in Proc : /\ pc'[q] = IF q = p THEN "op" ELSE pc[q]
                        /\ buf'[q] = IF q = p THEN None ELSE buf[q]
    BY Zenon DEF LogInv, TypeOK, brelse
  <2>2. pc[p] = "brelse" /\ UNCHANGED <<home, logblock, lh, cache, pins, tail, boot>>
    BY Zenon DEF brelse
  <2>3. Clean'
    BY Zenon, <2>1, <2>2 DEF LogInv, Clean
  <2> QED BY ZenonT(40), <2>1, <2>2, <2>3 DEF LogInv, Copied, bread, installing
<1>7. PinsExact'
  BY DEF LogInv, brelse, PinsExact
<1> QED BY Zenon, <1>r, <1>w, <1>1, <1>2, <1>3, <1>4, <1>5, <1>6, <1>7 DEF LogInv

(* The steps of commit: blocks to the log, the header, the blocks to their *)
(* places with their pins dropped, the empty header, and the wakeup.       *)
LEMMA Inv_write_log ==
  ASSUME LogInv, NEW p \in Proc, write_log(p) PROVE LogInv'
<1>a. boot = "up" /\ ~ installing
  BY Zenon DEF LogInv, Quiet, OneCommitter, Committing, installing, write_log
<1>b. tail \in 1 .. Len(lh) /\ lh[tail] \in Block /\ Len(lh) \in Nat /\ Len(lh) <= LOGBLOCKS
  BY HeaderTypes, Parts DEF Headers, write_log
<1>c. cache[lh[tail]] # None
  BY Zenon, <1>a, <1>b DEF LogInv, PinsExact, installing
<1>d. cache \in [Block -> Value \cup {None}] /\ cache' = [cache EXCEPT ![lh[tail]] = cache[lh[tail]]]
  BY Zenon, <1>c DEF LogInv, TypeOK, write_log, bread
<1>e. cache' = cache
  BY Zenon, <1>d
<1>f. UNCHANGED <<home, header, lh, outstanding, committing, pins, pc, chan, buf, wrote, boot, crashes>>
  BY Zenon DEF write_log
<1>1. Quiet' /\ OneCommitter' /\ Sleepers' /\ Counts' /\ Headers' /\ Space'
  BY <1>f DEF LogInv, Quiet, OneCommitter, InOp, Sleepers, Counts, active, Headers,
     installing, Space, logged
<1>2. Written'
  BY Zenon, <1>f DEF LogInv, Written, InOp
<1>3. logblock' = [logblock EXCEPT ![tail] = cache[lh[tail]]] /\ tail' = tail + 1
  BY Zenon, <1>c DEF write_log, bread
<1>4. TypeOK'
  <2>1. logblock' \in [1 .. LOGBLOCKS -> Value] /\ tail' \in 1 .. LOGBLOCKS + 1
    BY <1>b, <1>c, <1>3, LogAssumption, DiskTypes
  <2> QED BY Zenon, <1>e, <1>f, <2>1 DEF LogInv, TypeOK
<1>5. Buffers' /\ Clean'
  BY Zenon, <1>e, <1>f DEF LogInv, Buffers, Clean
<1>6. Copied'
  <2>1. \A c : bread(c)' = bread(c)
    BY Zenon, <1>e, <1>f DEF bread
  <2>2. \A i \in 1 .. Len(lh) : i < tail => logblock[i] = bread(lh[i])
    BY Zenon DEF LogInv, Copied, write_log
  <2>3. ASSUME NEW i \in 1 .. Len(lh), i < tail + 1 PROVE logblock'[i] = bread(lh[i])
    <3>1. i \in 1 .. LOGBLOCKS /\ DOMAIN logblock = 1 .. LOGBLOCKS
      BY <1>b, LogAssumption, DiskTypes
    <3>2. logblock'[i] = IF i = tail THEN cache[lh[tail]] ELSE logblock[i]
      BY Zenon, <1>3, <3>1
    <3>3. i # tail => i < tail
      BY <1>b, <2>3
    <3> QED BY Zenon, <1>c, <2>2, <3>2, <3>3 DEF bread
  <2> QED BY Zenon, <1>a, <1>f, <1>3, <2>1, <2>3 DEF Copied, installing
<1>7. PinsExact'
  BY Zenon, <1>a, <1>e, <1>f DEF LogInv, PinsExact, installing
<1> QED BY Zenon, <1>1, <1>2, <1>4, <1>5, <1>6, <1>7 DEF LogInv

LEMMA Inv_write_head ==
  ASSUME LogInv, NEW p \in Proc, write_head(p) PROVE LogInv'
<1>1. Space'
  BY Zenon DEF LogInv, write_head, Space, logged
<1>2. TypeOK'
  BY LogAssumption DEF LogInv, TypeOK, write_head
<1>3. Quiet' /\ OneCommitter' /\ Sleepers'
  BY DEF LogInv, write_head, Quiet, OneCommitter, InOp, Committing, Sleepers
<1>4. Counts' /\ Buffers'
  BY Zenon DEF LogInv, TypeOK, write_head, Counts, active, InOp, Buffers
<1>5. Headers'
  BY ZenonT(40) DEF LogInv, TypeOK, write_head, Headers, installing
<1>w. Written'
  <2>1. Written /\ lh' = lh /\ \A q \in Proc : wrote'[q] = wrote[q]
    BY Zenon DEF LogInv, write_head
  <2>2. \A q \in Proc : /\ InOp(q) => InOp(q)'
                        /\ pc'[q] = "log_write" => Cardinality(wrote[q] \cup {buf'[q]}) <= OpBlocks
    BY Zenon DEF LogInv, TypeOK, write_head, InOp, Written
  <2> QED BY Zenon, <2>1, <2>2, WrittenKept
<1>6. Clean' /\ Copied'
  BY DEF LogInv, TypeOK, write_head, Clean, Copied, bread, installing
<1>7. PinsExact'
  BY Zenon DEF LogInv, write_head, PinsExact, OneCommitter, Committing
<1> QED BY Zenon, <1>w, <1>1, <1>2, <1>3, <1>4, <1>5, <1>6, <1>7 DEF LogInv

LEMMA Inv_install_trans ==
  ASSUME LogInv, NEW p \in Proc, install_trans(p) PROVE LogInv'
<1>1. OneCommitter' /\ Sleepers' /\ Counts' /\ Headers' /\ Space'
  BY DEF LogInv, install_trans, install_block, OneCommitter, InOp, Sleepers, Counts,
     active, Headers, installing, Space, logged
<1>w. Written'
  BY Zenon DEF LogInv, install_trans, install_block, Written, InOp
<1>a. /\ tail \in 1 .. Len(lh) /\ Len(lh) \in Nat /\ Len(lh) <= LOGBLOCKS
      /\ lh[tail] \in Block /\ logblock[tail] \in Value
  BY LogAssumption DEF LogInv, TypeOK, Headers, install_trans, install_block
<1>b. pins[lh[tail]] = 1
  BY <1>a DEF LogInv, Quiet, PinsExact, install_trans
<1>c. \A b \in Block :
        /\ home'[b] = IF b = lh[tail] THEN logblock[tail] ELSE home[b]
        /\ cache'[b] = IF b = lh[tail] THEN logblock[tail] ELSE cache[b]
        /\ pins'[b] = IF b = lh[tail] THEN pins[b] - 1 ELSE pins[b]
  BY Zenon, <1>a DEF LogInv, TypeOK, install_trans, install_block
<1>d. /\ tail' = tail + 1
      /\ UNCHANGED <<logblock, header, lh, outstanding, committing, pc, chan, buf, wrote, boot, crashes>>
  BY Zenon DEF install_trans, install_block
<1>2. TypeOK'
  <2>1. pins' \in [Block -> Nat]
    BY <1>a, <1>b DEF LogInv, TypeOK, install_trans
  <2>2. home' \in [Block -> Value] /\ cache' \in [Block -> Value \cup {None}]
    BY Zenon, <1>a DEF LogInv, TypeOK, install_trans, install_block
  <2>3. tail' \in 1 .. LOGBLOCKS + 1
    BY <1>a, <1>d, LogAssumption
  <2> QED BY Zenon, <1>d, <2>1, <2>2, <2>3 DEF LogInv, TypeOK
<1>3. Quiet'
  BY Zenon DEF LogInv, install_trans, Quiet
<1>4. Buffers'
  BY DEF LogInv, install_trans, install_block, Buffers, locked
<1>5. Clean'
  BY Zenon, <1>c, <1>d DEF LogInv, Clean
<1>6. Copied'
  <2>1. installing /\ \A q \in Proc : pc[q] # "write_log"
    BY Zenon DEF LogInv, OneCommitter, Committing, installing, install_trans
  <2>2. \A i \in 1 .. Len(lh) : lh[i] \in Block /\ (lh[i] = lh[tail] => i = tail)
    BY <1>a DEF LogInv, TypeOK, Headers
  <2>3. /\ \A i \in 1 .. Len(lh) : logblock[i] = bread(lh[i])
        /\ \A i \in 1 .. Len(lh) : i < tail => home[lh[i]] = logblock[i]
    BY Zenon, <2>1 DEF LogInv, Copied
  <2>4. ASSUME NEW i \in 1 .. Len(lh) PROVE logblock[i] = bread(lh[i])'
    <3>1. CASE i = tail
      BY Zenon, <1>a, <1>c, <1>d, <3>1, LogAssumption DEF bread
    <3>2. CASE i # tail
      BY <1>c, <1>d, <2>2, <2>3, <3>2 DEF bread
    <3> QED BY Zenon, <3>1, <3>2
  <2>5. ASSUME NEW i \in 1 .. Len(lh), i < tail + 1 PROVE home'[lh[i]] = logblock[i]
    <3>1. i # tail => i < tail
      BY <1>a, <2>5
    <3> QED BY Zenon, <1>c, <2>2, <2>3, <3>1
  <2> QED BY Zenon, <1>d, <2>1, <2>4, <2>5 DEF Copied
<1>7. PinsExact'
  <2>1. installing /\ installing' /\ boot = "up"
    BY Zenon, <1>d DEF LogInv, Quiet, installing, install_trans
  <2>2. \A i, j \in 1 .. Len(lh) : lh[i] = lh[j] => i = j
    BY Zenon DEF LogInv, Headers
  <2>3. \A b \in Block : IF \E i \in tail .. Len(lh) : lh[i] = b
                         THEN pins[b] = 1 /\ cache[b] # None ELSE pins[b] = 0
    BY Zenon, <2>1 DEF LogInv, PinsExact, installing
  <2>4. ASSUME NEW b \in Block, NEW i \in tail + 1 .. Len(lh), lh[i] = b
        PROVE  pins'[b] = 1 /\ cache'[b] # None
    <3>1. i \in tail .. Len(lh) /\ i \in 1 .. Len(lh) /\ i # tail
      BY <1>a
    <3>2. b # lh[tail]
      BY Zenon, <1>a, <2>2, <2>4, <3>1
    <3> QED BY <1>c, <2>3, <2>4, <3>1, <3>2
  <2>5. ASSUME NEW b \in Block, \A i \in tail + 1 .. Len(lh) : lh[i] # b PROVE pins'[b] = 0
    <3>1. CASE b = lh[tail]
      BY <1>b, <1>c, <3>1
    <3>2. CASE b # lh[tail]
      <4>1. \A i \in tail .. Len(lh) : i = tail \/ i \in tail + 1 .. Len(lh)
        BY <1>a
      <4>2. ~ \E i \in tail .. Len(lh) : lh[i] = b
        BY Zenon, <2>5, <3>2, <4>1
      <4> QED BY Zenon, <1>c, <2>3, <3>2, <4>2
    <3> QED BY Zenon, <3>1, <3>2
  <2> QED BY Zenon, <1>d, <2>1, <2>4, <2>5 DEF PinsExact, installing
<1> QED BY Zenon, <1>w, <1>1, <1>2, <1>3, <1>4, <1>5, <1>6, <1>7 DEF LogInv

LEMMA Inv_recover_install ==
  ASSUME LogInv, recover_install PROVE LogInv'
<1>1. Quiet' /\ OneCommitter' /\ Sleepers' /\ Counts' /\ Headers' /\ Space'
  BY DEF LogInv, recover_install, install_block, Quiet, OneCommitter, InOp, Sleepers,
     Counts, active, Headers, Space
<1>w. Written'
  BY Zenon DEF LogInv, recover_install, install_block, Written, InOp
<1>2. TypeOK'
  BY LogAssumption DEF LogInv, TypeOK, recover_install, install_block, Headers
<1>3. Buffers'
  BY DEF LogInv, recover_install, install_block, Buffers, locked
<1>4. Clean'
  BY Zenon DEF LogInv, TypeOK, recover_install, install_block, Clean
<1>5. Copied'
  BY DEF LogInv, TypeOK, recover_install, install_block, Copied, Headers, Quiet,
     installing
<1>6. PinsExact'
  BY Zenon DEF LogInv, TypeOK, recover_install, install_block, PinsExact
<1> QED BY Zenon, <1>w, <1>1, <1>2, <1>3, <1>4, <1>5, <1>6 DEF LogInv

(* A step that only reads or drops a buffer leaves the rest as it is.      *)
LEMMA OnlyCache ==
  ASSUME LogInv,
         UNCHANGED <<header, lh, outstanding, committing, pins, pc, chan, buf, wrote, boot>>
  PROVE  Quiet' /\ OneCommitter' /\ Sleepers' /\ Counts' /\ Written' /\ Headers' /\ Space'
<1>1. Quiet'
  BY Zenon DEF LogInv, Quiet
<1>2. OneCommitter'
  BY Zenon DEF LogInv, OneCommitter, InOp
<1>3. Sleepers'
  BY Zenon DEF LogInv, Sleepers
<1>4. Counts'
  BY Zenon, CallsKept DEF LogInv, InOp
<1>5. Written'
  BY Zenon DEF LogInv, Written, InOp
<1>6. Headers'
  BY DEF LogInv, Headers, installing
<1>7. Space'
  BY Zenon DEF LogInv, Space, logged
<1> QED BY Zenon, <1>1, <1>2, <1>3, <1>4, <1>5, <1>6, <1>7

LEMMA Inv_stutter == ASSUME LogInv, UNCHANGED vars PROVE LogInv'
<1>1. /\ UNCHANGED <<header, lh, outstanding, committing, pins, pc, chan, buf, wrote, boot>>
      /\ UNCHANGED <<home, logblock, cache, tail, crashes>>
  BY Zenon DEF vars
<1>2. TypeOK'
  BY Zenon, <1>1 DEF LogInv, TypeOK
<1>3. Buffers' /\ Clean'
  BY Zenon, <1>1 DEF LogInv, Buffers, Clean
<1>4. Copied'
  BY Zenon, <1>1 DEF LogInv, Copied, bread, installing
<1>5. PinsExact'
  BY Zenon, <1>1 DEF LogInv, PinsExact
<1> QED BY Zenon, <1>1, <1>2, <1>3, <1>4, <1>5, OnlyCache DEF LogInv

(* The buffer cache: a block that is read, a buffer that is reused.        *)
LEMMA Inv_read ==
  ASSUME LogInv, NEW b \in Block, read(b) PROVE LogInv'
<1>1. /\ UNCHANGED <<header, lh, outstanding, committing, pins, pc, chan, buf, wrote, boot>>
      /\ cache[b] = None /\ cache' = [cache EXCEPT ![b] = home[b]]
      /\ UNCHANGED <<home, logblock, tail, crashes>>
  BY Zenon DEF read
<1>2. TypeOK'
  BY Zenon, <1>1, LogAssumption DEF LogInv, TypeOK
<1>3. Buffers'
  <2>1. cache \in [Block -> Value \cup {None}] /\ home[b] # None
    BY LogAssumption DEF LogInv, TypeOK
  <2>2. \A c \in Block : cache[c] # None => cache'[c] = cache[c]
    BY Zenon, <1>1, <2>1
  <2>3. \A p \in Proc : buf[p] # None => buf[p] \in Block
    BY Zenon DEF LogInv, TypeOK
  <2>4. Buffers
    BY Zenon DEF LogInv
  <2> QED BY Zenon, <1>1, <2>2, <2>3, <2>4 DEF Buffers
<1>4. Clean' /\ Copied'
  BY <1>1 DEF LogInv, TypeOK, Clean, Copied, bread, installing
<1>5. PinsExact'
  BY <1>1 DEF LogInv, TypeOK, PinsExact
<1> QED BY Zenon, <1>1, <1>2, <1>3, <1>4, <1>5, OnlyCache DEF LogInv

LEMMA Inv_recycle ==
  ASSUME LogInv, NEW b \in Block, recycle(b) PROVE LogInv'
<1>1. /\ UNCHANGED <<header, lh, outstanding, committing, pins, pc, chan, buf, wrote, boot>>
      /\ pins[b] = 0 /\ cache[b] # None /\ cache' = [cache EXCEPT ![b] = None]
      /\ \A p \in Proc : buf[p] # b
      /\ UNCHANGED <<home, logblock, tail, crashes>>
  BY Zenon DEF recycle, locked
<1>2. TypeOK'
  BY Zenon, <1>1 DEF LogInv, TypeOK
<1>3. Buffers'
  <2>1. \A c \in Block : c # b => cache'[c] = cache[c]
    BY <1>1
  <2>2. \A p \in Proc : buf[p] # None => buf[p] \in Block
    BY Zenon DEF LogInv, TypeOK
  <2>3. Buffers
    BY Zenon DEF LogInv
  <2> QED BY Zenon, <1>1, <2>1, <2>2, <2>3 DEF Buffers
<1>4. Clean'
  BY Zenon, <1>1 DEF LogInv, TypeOK, Clean
<1>5. Copied'
  <2>1. \A c \in Block : bread(c)' = bread(c)
    BY Zenon, <1>1 DEF LogInv, TypeOK, Clean, bread
  <2>2. \A i \in 1 .. Len(lh) : lh[i] \in Block
    BY DEF LogInv, TypeOK
  <2>3. Copied
    BY Zenon DEF LogInv
  <2> QED BY <1>1, <2>1, <2>2, <2>3 DEF Copied, installing
<1>6. PinsExact'
  BY <1>1 DEF LogInv, TypeOK, PinsExact
<1> QED BY Zenon, <1>1, <1>2, <1>3, <1>4, <1>5, <1>6, OnlyCache DEF LogInv

-------------------------------------------------------------------------------
(* Transactions, seen from the log: what calls see, what a crash leaves.   *)
Mem == IF boot = "up" THEN [b \in Block |-> bread(b)] ELSE Recoverable

(* What the header does to the contents after a crash.                     *)
Replay ==
  /\ \A i \in 1 .. Len(header) : Recoverable[header[i]] = logblock[i]
  /\ \A b \in Block : (\A i \in 1 .. Len(header) : header[i] # b) => Recoverable[b] = home[b]
  /\ header = <<>> => Recoverable = home

(* A header has each block once, so that its log block is unique.          *)
LEMMA WithHeader == LogInv => Replay
<1> SUFFICES ASSUME LogInv PROVE Replay
  OBVIOUS
<1> DEFINE at(b) == CHOOSE i \in DOMAIN header : header[i] = b
<1>1. header \in Seq(Block) /\ DOMAIN header = 1 .. Len(header)
  BY DEF LogInv, TypeOK
<1>2. \A i \in 1 .. Len(header) : at(header[i]) = i
  BY Zenon, <1>1 DEF LogInv, Headers
<1>3. Recoverable = [b \in Block |-> IF \E i \in DOMAIN header : header[i] = b
                                     THEN logblock[at(b)] ELSE home[b]]
  BY Zenon DEF Recoverable
<1> HIDE DEF at
<1>4. \A i \in 1 .. Len(header) : Recoverable[header[i]] = logblock[i]
  BY <1>1, <1>2, <1>3
<1>5. \A b \in Block : (\A i \in 1 .. Len(header) : header[i] # b) => Recoverable[b] = home[b]
  BY Zenon, <1>1, <1>3
<1>6. header = <<>> => Recoverable = home
  BY DEF LogInv, TypeOK, Recoverable
<1> QED BY Zenon, <1>4, <1>5, <1>6 DEF Replay

LEMMA WithNextHeader == LogInv' => Replay'
  BY WithHeader, PTL

(* What is not touched is not seen to change.                              *)
LEMMA SameRecovery == ASSUME UNCHANGED <<home, logblock, header>>
                      PROVE  Recoverable' = Recoverable
  BY Zenon DEF Recoverable

LEMMA SameMem == ASSUME UNCHANGED <<home, logblock, header, cache, boot>>
                 PROVE  Mem' = Mem
  BY Zenon, SameRecovery DEF Mem, bread

(* A header whose blocks are home can be erased.                           *)
LEMMA Erasable ==
  ASSUME LogInv, header = lh, \A i \in 1 .. Len(lh) : home[lh[i]] = logblock[i]
  PROVE  Recoverable = home
<1>1. \A b \in Block : Recoverable[b] = home[b]
  BY WithHeader DEF Replay
<1>2. Recoverable = [b \in Block |-> Recoverable[b]]
  BY Zenon DEF Recoverable
<1> QED BY Zenon, <1>1, <1>2 DEF LogInv, TypeOK

(* One pass of install_trans does not change what a crash leaves.          *)
LEMMA InstallKeeps ==
  ASSUME LogInv, Replay', header = lh, install_block
  PROVE  Recoverable' = Recoverable
<1>1. tail \in 1 .. Len(lh) /\ lh[tail] \in Block
  BY DEF LogInv, TypeOK, install_block
<1>2. UNCHANGED <<header, logblock>> /\ home' = [home EXCEPT ![lh[tail]] = logblock[tail]]
  BY Zenon DEF install_block
<1>3. \A b \in Block : b # lh[tail] => home'[b] = home[b]
  BY <1>2
<1>4. ASSUME NEW b \in Block PROVE Recoverable'[b] = Recoverable[b]
  <2>1. CASE \E i \in 1 .. Len(header) : header[i] = b
    <3>1. PICK i \in 1 .. Len(header) : header[i] = b
      BY Zenon, <2>1
    <3>2. Recoverable[b] = logblock[i]
      BY Zenon, <3>1, WithHeader DEF Replay
    <3>3. \A j \in 1 .. Len(header') : Recoverable'[header'[j]] = logblock'[j]
      BY Zenon DEF Replay
    <3> QED BY Zenon, <1>2, <3>1, <3>2, <3>3
  <2>2. CASE \A i \in 1 .. Len(header) : header[i] # b
    <3>1. (\A i \in 1 .. Len(header') : header'[i] # b) => Recoverable'[b] = home'[b]
      BY Zenon DEF Replay
    <3>2. Recoverable[b] = home[b]
      BY Zenon, <2>2, WithHeader DEF Replay
    <3>3. home'[b] = home[b]
      BY Zenon, <1>1, <1>3, <2>2
    <3> QED BY Zenon, <1>2, <2>2, <3>1, <3>2, <3>3
  <2> QED BY Zenon, <2>1, <2>2
<1>5. /\ Recoverable = [b \in Block |-> Recoverable[b]]
      /\ Recoverable' = [b \in Block |-> Recoverable'[b]]
  BY Zenon DEF Recoverable
<1> QED BY Zenon, <1>4, <1>5

(* A buffer that is neither pinned nor used holds what is on the disk.     *)
LEMMA ReadsDisk == ASSUME LogInv, NEW b \in Block, pins[b] = 0, ~ locked(b)
                   PROVE  bread(b) = home[b]
  BY Zenon DEF LogInv, Clean, bread, locked

(* Without calls in progress no buffer is held.                            *)
LEMMA Idle == ASSUME LogInv, \A p \in Proc : ~InOp(p) PROVE \A b \in Block : ~ locked(b)
  BY Zenon, LogAssumption DEF LogInv, Buffers, InOp, locked

-----------------------------------------------------------------------------
(* Each step of the log is one of Transactions, or changes none of the     *)
(* three.                                                                  *)
LEMMA Step_recovery ==
  ASSUME LogInv, Replay', read_head \/ recover_install \/ recover_clear
  PROVE  UNCHANGED <<Mem, Recoverable, active>>
<1>1. UNCHANGED active
  BY Zenon DEF active, InOp, read_head, recover_install, recover_clear, install_block,
     clear_log
<1>2. CASE read_head
  <2>1. Recoverable' = Recoverable
    BY Zenon, <1>2, SameRecovery DEF read_head
  <2> QED BY Zenon, <1>1, <1>2, <2>1 DEF Mem, read_head
<1>3. CASE recover_install
  <2>1. Recoverable' = Recoverable
    BY Zenon, <1>3, InstallKeeps DEF recover_install, LogInv, Headers
  <2> QED BY Zenon, <1>1, <1>3, <2>1 DEF Mem, recover_install
<1>4. CASE recover_clear
  <2>1. header = lh /\ \A i \in 1 .. Len(lh) : home[lh[i]] = logblock[i]
    BY <1>4 DEF LogInv, TypeOK, Headers, Copied, recover_clear, clear_log
  <2>2. Recoverable = home
    BY Zenon, <2>1, Erasable
  <2>3. Recoverable' = home
    BY Zenon, <1>4 DEF Replay, recover_clear, clear_log
  <2>4. \A b \in Block : bread(b) = home[b]
    BY Zenon, <1>4, Idle, ReadsDisk DEF LogInv, Quiet, InOp, recover_clear
  <2>5. Mem' = [b \in Block |-> bread(b)]
    BY Zenon, <1>4 DEF Mem, bread, recover_clear, clear_log
  <2>6. [b \in Block |-> bread(b)] = home
    BY Zenon, <2>4 DEF LogInv, TypeOK
  <2>7. Mem = Recoverable
    BY Zenon, <1>4 DEF Mem, recover_clear
  <2> QED BY Zenon, <1>1, <2>2, <2>3, <2>5, <2>6, <2>7
<1> QED BY Zenon, <1>2, <1>3, <1>4

LEMMA WakesNoCall ==
  ASSUME LogInv, NEW p \in Proc, wakeup(p, "idle", "&log")
  PROVE  \A q \in Proc : InOp(q)' <=> q # p /\ InOp(q)
<1>1. \A q \in Proc : pc'[q] = IF q = p THEN "idle"
                                ELSE IF chan[q] = "&log" THEN "begin_op" ELSE pc[q]
  BY Zenon DEF wakeup
<1>2. \A q \in Proc : chan[q] = "&log" => pc[q] = "sleep"
  BY Zenon, LogAssumption DEF LogInv, Sleepers
<1> QED BY Zenon, <1>1, <1>2 DEF InOp

LEMMA Step_begin ==
  ASSUME LogInv, NEW p \in Proc,
         begin_op_call(p) \/ begin_op_committing(p) \/ begin_op_no_space(p)
  PROVE  UNCHANGED <<Mem, Recoverable, active>>
<1>1. UNCHANGED <<home, logblock, header, cache, boot>>
  BY Zenon DEF begin_op_call, begin_op_committing, begin_op_no_space, sleep
<1>2. UNCHANGED active
  BY Zenon DEF LogInv, TypeOK, active, InOp, begin_op_call, begin_op_committing,
     begin_op_no_space, sleep
<1> QED BY Zenon, <1>1, <1>2, SameMem, SameRecovery

LEMMA Step_enter ==
  ASSUME LogInv, NEW p \in Proc, begin_op_enter(p)
  PROVE  /\ p \notin active /\ active' = active \cup {p}
         /\ UNCHANGED <<Mem, Recoverable>>
<1>1. UNCHANGED <<home, logblock, header, cache, boot>>
  BY Zenon DEF begin_op_enter
<1>2. p \notin active /\ active' = active \cup {p}
  BY Zenon DEF LogInv, TypeOK, active, InOp, begin_op_enter
<1> QED BY Zenon, <1>1, <1>2, SameMem, SameRecovery

LEMMA Step_modify ==
  ASSUME LogInv, NEW p \in Proc, NEW b \in Block, NEW v \in Value, modify(p, b, v)
  PROVE  /\ p \in active /\ Mem' = [Mem EXCEPT ![b] = v]
         /\ UNCHANGED <<Recoverable, active>>
<1>1. UNCHANGED <<home, logblock, header, boot>> /\ cache' = [cache EXCEPT ![b] = v]
  BY Zenon DEF modify
<1>2. p \in active /\ UNCHANGED active
  BY DEF active, InOp, modify
<1>3. boot = "up"
  BY Zenon DEF LogInv, Quiet, modify
<1>4. \A c \in Block : bread(c)' = IF c = b THEN v ELSE bread(c)
  BY Zenon, <1>1, LogAssumption DEF LogInv, TypeOK, bread
<1>5. Mem = [c \in Block |-> bread(c)] /\ Mem' = [c \in Block |-> bread(c)']
  BY Zenon, <1>1, <1>3 DEF Mem
<1>6. Mem' = [Mem EXCEPT ![b] = v]
  BY Zenon, <1>4, <1>5
<1> QED BY Zenon, <1>1, <1>2, <1>6, SameRecovery

LEMMA Step_log ==
  ASSUME LogInv, NEW p \in Proc, log_write(p) \/ brelse(p)
  PROVE  UNCHANGED <<Mem, Recoverable, active>>
<1>1. UNCHANGED <<home, logblock, header, cache, boot>>
  BY Zenon DEF log_write, brelse
<1>2. UNCHANGED active
  BY Zenon DEF LogInv, TypeOK, active, InOp, log_write, brelse
<1> QED BY Zenon, <1>1, <1>2, SameMem, SameRecovery

LEMMA Step_end ==
  ASSUME LogInv, NEW p \in Proc, EndOp(p)
  PROVE  /\ p \in active /\ active' = active \ {p}
         /\ UNCHANGED <<Mem, Recoverable>>
<1>1. UNCHANGED <<home, logblock, header, cache, boot>>
  BY Zenon DEF EndOp, end_op_others, end_op_last
<1>2. p \in active
  BY Zenon DEF active, InOp, EndOp, end_op_others, end_op_last
<1>3. active' = active \ {p}
  <2>1. CASE end_op_others(p)
    <3>1. \A q \in Proc : InOp(q)' <=> q # p /\ InOp(q)
      BY Zenon, <2>1, WakesNoCall DEF end_op_others
    <3> QED BY Zenon, <3>1 DEF active
  <2>2. CASE end_op_last(p)
    BY Zenon, <2>2 DEF LogInv, TypeOK, active, InOp, end_op_last
  <2> QED BY Zenon, <2>1, <2>2 DEF EndOp
<1> QED BY Zenon, <1>1, <1>2, <1>3, SameMem, SameRecovery

(* Before the header is written, what commit does changes nothing.         *)
LEMMA Step_write_log ==
  ASSUME LogInv, Replay', NEW p \in Proc, write_log(p)
  PROVE  UNCHANGED <<Mem, Recoverable, active>>
<1>1. UNCHANGED active
  BY Zenon DEF active, InOp, write_log
<1>2. boot = "up" /\ ~ installing
  BY Zenon DEF LogInv, Quiet, OneCommitter, Committing, installing, write_log
<1>3. header = <<>> /\ UNCHANGED <<header, home, boot>>
  BY Zenon, <1>2 DEF LogInv, Headers, write_log
<1>4. Recoverable = home /\ Recoverable' = home
  BY Zenon, <1>3, WithHeader DEF Replay
<1>5. \A b \in Block : bread(b)' = bread(b)
  BY DEF bread, write_log
<1>6. Mem = [b \in Block |-> bread(b)] /\ Mem' = [b \in Block |-> bread(b)']
  BY Zenon, <1>2, <1>3 DEF Mem
<1> QED BY Zenon, <1>1, <1>4, <1>5, <1>6

(* The header makes the transaction stable: its blocks are in the log, and *)
(* all the others are on the disk.                                         *)
LEMMA Step_write_head ==
  ASSUME LogInv, Replay', NEW p \in Proc, write_head(p)
  PROVE  active = {} /\ Recoverable' = Mem /\ UNCHANGED <<Mem, active>>
<1>1. \A q \in Proc : ~InOp(q)
  BY Zenon DEF LogInv, OneCommitter, Committing, write_head
<1>2. active = {} /\ active' = {}
  BY <1>1 DEF active, InOp, write_head
<1>3. boot = "up" /\ \A q \in Proc : pc[q] # "install_trans"
  BY Zenon DEF LogInv, Quiet, OneCommitter, Committing, write_head
<1>4. UNCHANGED <<home, logblock, cache, boot>> /\ header' = lh
  BY Zenon DEF write_head
<1>5. Mem = [b \in Block |-> bread(b)] /\ Mem' = Mem
  BY Zenon, <1>3, <1>4 DEF Mem, bread
<1>6. \A i \in 1 .. Len(lh) : logblock[i] = bread(lh[i])
  BY DEF LogInv, TypeOK, Copied, write_head
<1>7. ASSUME NEW b \in Block PROVE Recoverable'[b] = bread(b)
  <2>1. CASE \E i \in 1 .. Len(lh) : lh[i] = b
    <3>1. PICK i \in 1 .. Len(lh) : lh[i] = b
      BY Zenon, <2>1
    <3>2. \A j \in 1 .. Len(header') : Recoverable'[header'[j]] = logblock'[j]
      BY Zenon DEF Replay
    <3> QED BY Zenon, <1>4, <1>6, <3>1, <3>2
  <2>2. CASE \A i \in 1 .. Len(lh) : lh[i] # b
    <3>1. (\A i \in 1 .. Len(header') : header'[i] # b) => Recoverable'[b] = home'[b]
      BY Zenon DEF Replay
    <3>2. pins[b] = 0
      BY Zenon, <1>3, <2>2 DEF LogInv, PinsExact
    <3>3. bread(b) = home[b]
      BY Zenon, <1>1, <3>2, Idle, ReadsDisk
    <3> QED BY Zenon, <1>4, <2>2, <3>1, <3>3
  <2> QED BY Zenon, <2>1, <2>2
<1>8. Recoverable' = [b \in Block |-> Recoverable'[b]]
  BY Zenon DEF Recoverable
<1> QED BY Zenon, <1>2, <1>5, <1>7, <1>8

LEMMA Step_install_trans ==
  ASSUME LogInv, Replay', NEW p \in Proc, install_trans(p)
  PROVE  UNCHANGED <<Mem, Recoverable, active>>
<1>1. UNCHANGED active
  BY Zenon DEF active, InOp, install_trans
<1>2. boot = "up" /\ installing /\ header = lh
  BY Zenon DEF LogInv, Quiet, Headers, installing, install_trans
<1>3. Recoverable' = Recoverable
  BY Zenon, <1>2, InstallKeeps DEF install_trans
<1>4. tail \in 1 .. Len(lh) /\ lh[tail] \in Block
  BY DEF LogInv, TypeOK, install_trans, install_block
<1>5. logblock[tail] = bread(lh[tail]) /\ bread(lh[tail]) \in Value
  <2>1. logblock[tail] = bread(lh[tail])
    BY Zenon, <1>2, <1>4 DEF LogInv, Copied
  <2>2. cache[lh[tail]] \in Value \cup {None} /\ home[lh[tail]] \in Value
    BY Zenon, <1>4 DEF LogInv, TypeOK
  <2> QED BY Zenon, <2>1, <2>2 DEF bread
<1>6. \A b \in Block : bread(b)' = bread(b)
  BY <1>5 DEF bread, install_trans, install_block
<1>7. Mem = [b \in Block |-> bread(b)] /\ Mem' = [b \in Block |-> bread(b)']
  BY Zenon, <1>2 DEF Mem, install_trans
<1> QED BY Zenon, <1>1, <1>3, <1>6, <1>7

LEMMA Step_erase ==
  ASSUME LogInv, Replay', NEW p \in Proc, erase(p) \/ end_commit(p)
  PROVE  UNCHANGED <<Mem, Recoverable, active>>
<1>1. CASE erase(p)
  <2>1. UNCHANGED active
    BY <1>1 DEF active, InOp, erase
  <2>2. boot = "up" /\ installing /\ header = lh
    BY Zenon, <1>1 DEF LogInv, Quiet, Headers, installing, erase
  <2>3. \A i \in 1 .. Len(lh) : home[lh[i]] = logblock[i]
    <3>1. \A i \in 1 .. Len(lh) : i < tail
      BY <1>1 DEF LogInv, TypeOK, erase, clear_log
    <3>2. Copied
      BY Zenon DEF LogInv
    <3> QED BY Zenon, <2>2, <3>1, <3>2 DEF Copied
  <2>4. Recoverable = home
    BY Zenon, <2>2, <2>3, Erasable
  <2>5. Recoverable' = home
    <3>1. header' = <<>> /\ home' = home
      BY Zenon, <1>1 DEF erase, clear_log
    <3> QED BY Zenon, <3>1 DEF Replay
  <2>6. Mem' = Mem
    BY Zenon, <1>1, <2>2 DEF Mem, bread, erase, clear_log
  <2> QED BY Zenon, <2>1, <2>4, <2>5, <2>6
<1>2. CASE end_commit(p)
  <2>1. UNCHANGED <<home, logblock, header, cache, boot>>
    BY Zenon, <1>2 DEF end_commit
  <2>2. ~ InOp(p) /\ \A q \in Proc : InOp(q)' <=> q # p /\ InOp(q)
    BY Zenon, <1>2, WakesNoCall DEF end_commit, InOp
  <2>3. UNCHANGED active
    BY Zenon, <2>2 DEF active
  <2> QED BY Zenon, <2>1, <2>3, SameMem, SameRecovery
<1> QED BY Zenon, <1>1, <1>2

(* Reading a block, and reusing the buffer of one, is not seen.            *)
LEMMA Step_cache ==
  ASSUME LogInv, NEW b \in Block, read(b) \/ recycle(b)
  PROVE  UNCHANGED <<Mem, Recoverable, active>>
<1>1. UNCHANGED <<home, logblock, header, boot>> /\ UNCHANGED active
  BY Zenon DEF active, InOp, read, recycle
<1>2. bread(b) = home[b]
  BY Zenon, ReadsDisk DEF read, recycle, bread
<1>3. cache' = [cache EXCEPT ![b] = home[b]] \/ cache' = [cache EXCEPT ![b] = None]
  BY Zenon DEF read, recycle
<1>4. \A c \in Block : bread(c)' = bread(c)
  BY Zenon, <1>1, <1>2, <1>3 DEF LogInv, TypeOK, bread
<1>5. Recoverable' = Recoverable
  BY Zenon, <1>1, SameRecovery
<1>6. Mem' = Mem
  BY Zenon, <1>1, <1>4, <1>5 DEF Mem
<1> QED BY Zenon, <1>1, <1>5, <1>6

LEMMA Step_crash ==
  ASSUME LogInv, crash
  PROVE  Mem' = Recoverable /\ active' = {} /\ UNCHANGED Recoverable
<1>1. UNCHANGED <<home, logblock, header>> /\ boot' = "read_head"
  BY Zenon DEF crash
<1>2. active' = {}
  BY Zenon DEF active, InOp, crash
<1> QED BY Zenon, <1>1, <1>2, SameRecovery DEF Mem

-----------------------------------------------------------------------------
(* The step simulation, one action of the log after the other.             *)
LEMMA LogInitRefines == ASSUME Init, LogInv PROVE T!Init
<1>1. Recoverable = home
  BY Zenon, WithHeader DEF Replay, Init
<1>2. {p \in Proc : InOp(p)} = {}
  BY Zenon DEF Init, InOp
<1> QED BY Zenon, <1>1, <1>2 DEF T!Init, Init

LEMMA LogNextRefines == ASSUME LogInv, LogInv', [Next]_vars PROVE [T!Next]_(T!vars)
<1> DEFINE Stutter == UNCHANGED <<Mem, Recoverable, active>>
<1>r. Replay'
  BY Zenon, WithNextHeader
<1>1. Stutter => UNCHANGED T!vars
  BY Zenon DEF T!vars, Mem, active
<1>2. CASE read_head \/ recover_install \/ recover_clear
  BY Zenon, <1>r, <1>1, <1>2, Step_recovery
<1>3. ASSUME NEW p \in Proc, begin_op_call(p) \/ begin_op_committing(p) \/ begin_op_no_space(p)
      PROVE  [T!Next]_(T!vars)
  BY Zenon, <1>1, <1>3, Step_begin
<1>4. ASSUME NEW p \in Proc, begin_op_enter(p) PROVE [T!Next]_(T!vars)
  <2>1. T!Begin(p)
    BY Zenon, <1>4, Step_enter DEF T!Begin, Mem, active
  <2> QED BY Zenon, <2>1 DEF T!Next
<1>5. ASSUME NEW p \in Proc, NEW b \in Block, NEW v \in Value, modify(p, b, v)
      PROVE  [T!Next]_(T!vars)
  <2>1. T!Write(p, b, v)
    BY Zenon, <1>5, Step_modify DEF T!Write, Mem, active
  <2> QED BY Zenon, <2>1 DEF T!Next
<1>6. ASSUME NEW p \in Proc, log_write(p) \/ brelse(p) PROVE [T!Next]_(T!vars)
  BY Zenon, <1>1, <1>6, Step_log
<1>7. ASSUME NEW p \in Proc, EndOp(p) PROVE [T!Next]_(T!vars)
  <2>1. T!End(p)
    BY Zenon, <1>7, Step_end DEF T!End, Mem, active
  <2> QED BY Zenon, <2>1 DEF T!Next
<1>8. ASSUME NEW p \in Proc, Commit(p) PROVE [T!Next]_(T!vars)
  <2>1. CASE write_head(p)
    <3>1. T!Commit
      BY Zenon, <1>r, <2>1, Step_write_head DEF T!Commit, Mem, active
    <3> QED BY Zenon, <3>1 DEF T!Next
  <2>2. CASE write_log(p) \/ install_trans(p) \/ erase(p) \/ end_commit(p)
    BY Zenon, <1>r, <1>1, <2>2, Step_write_log, Step_install_trans, Step_erase
  <2> QED BY Zenon, <1>8, <2>1, <2>2 DEF Commit
<1>9. ASSUME NEW b \in Block, read(b) \/ recycle(b) PROVE [T!Next]_(T!vars)
  BY Zenon, <1>1, <1>9, Step_cache
<1>10. CASE crash
  <2>1. T!Crash
    BY Zenon, <1>10, Step_crash DEF T!Crash, Mem, active
  <2> QED BY Zenon, <2>1 DEF T!Next
<1>11. CASE UNCHANGED vars
  <2>1. Stutter
    BY Zenon, <1>11, SameMem, SameRecovery DEF vars, active, InOp
  <2> QED BY Zenon, <1>1, <2>1
<1> QED BY Zenon, <1>2, <1>3, <1>4, <1>5, <1>6, <1>7, <1>8, <1>9, <1>10, <1>11 DEF Next,
    BeginOp

===============================================================================
