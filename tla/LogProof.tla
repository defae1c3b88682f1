------------------------------- MODULE LogProof -------------------------------
(***************************************************************************)
(* For any number of processes, blocks and crashes, the calls in progress  *)
(* are counted, they have room in the log, and the steps that begin and    *)
(* end a call, log a block, empty the log or stop the machine keep the     *)
(* invariant.                                                              *)
(***************************************************************************)
EXTENDS LogInvariant, FiniteSetTheorems, TLAPS

(* What multiplication by the number of calls needs.                       *)
LEMMA Times == ASSUME NEW m \in Nat, NEW k \in Nat
               PROVE  /\ m * k \in Nat
                      /\ (m + 1) * k = m * k + k
                      /\ \A a \in Nat : m >= 1 /\ a < k => m * a < m * k
<1>1. m * k \in Nat /\ (m + 1) * k = m * k + k
  OBVIOUS
<1>2. ASSUME NEW a \in Nat, m >= 1, a < k PROVE m * a < m * k
  <2>1. PICK d \in Nat : k = a + 1 + d
    <3>1. k - a - 1 \in Nat /\ k = a + 1 + (k - a - 1)
      BY <1>2
    <3> QED BY Zenon, <3>1
  <2>2. m * k = m * a + m + m * d
    BY <2>1
  <2>3. m * a \in Nat /\ m * d \in Nat
    OBVIOUS
  <2> QED BY <1>2, <2>2, <2>3
<1> QED BY Zenon, <1>1, <1>2

(* A block is put at the end of the header.                                *)
LEMMA Appended ==
  ASSUME NEW s \in Seq(Block), NEW b \in Block
  PROVE  /\ Append(s, b) \in Seq(Block) /\ Len(Append(s, b)) = Len(s) + 1
         /\ Append(s, b)[Len(s) + 1] = b
         /\ \A i \in 1 .. Len(s) : Append(s, b)[i] = s[i]
<1>1. Append(s, b) \in Seq(Block) /\ Len(Append(s, b)) = Len(s) + 1
  OBVIOUS
<1>2. Append(s, b)[Len(s) + 1] = b
  OBVIOUS
<1>3. \A i \in 1 .. Len(s) : Append(s, b)[i] = s[i]
  OBVIOUS
<1> QED BY Zenon, <1>1, <1>2, <1>3

(* There are finitely many calls in progress.                              *)
LEMMA ActiveFinite == IsFiniteSet(active)
<1>1. active \in SUBSET Proc
  BY Zenon DEF active
<1> QED BY Zenon, <1>1, FS_Subset, LogAssumption

(* A call logs at most OpBlocks blocks, so that all of them are at most    *)
(* OpBlocks for each call in progress: there is an injection from the      *)
(* blocks logged to the pairs of a call and a number up to OpBlocks.       *)
LEMMA LoggedBound ==
  ASSUME TypeOK, Written
  PROVE  /\ IsFiniteSet(logged) /\ Cardinality(logged) \in Nat
         /\ Cardinality(logged) <= Cardinality(active) * OpBlocks
<1> DEFINE N == 1 .. OpBlocks
           g == [p \in Proc |-> CHOOSE h \in Injection(wrote[p], N) : TRUE]
           f == [w \in logged |-> <<w[1], g[w[1]][w[2]]>>]
<1>1. OpBlocks \in Nat /\ IsFiniteSet(N) /\ Cardinality(N) = OpBlocks
  BY FS_Interval, LogAssumption
<1>2. ASSUME NEW p \in Proc PROVE g[p] \in Injection(wrote[p], N)
  <2> DEFINE n == Cardinality(wrote[p])
  <2>1. IsFiniteSet(wrote[p]) /\ n <= OpBlocks
    BY Zenon DEF Written
  <2>2. n \in Nat /\ ExistsBijection(1 .. n, wrote[p])
    BY Zenon, <2>1, FS_CardinalityType
  <2>3. PICK h \in Bijection(1 .. n, wrote[p]) : TRUE
    BY Zenon, <2>2 DEF ExistsBijection
  <2>4. 1 .. n \subseteq N
    BY <1>1, <2>1, <2>2
  <2> DEFINE inverse == [b \in wrote[p] |-> CHOOSE i \in 1 .. n : h[i] = b]
  <2> HIDE DEF n, N
  <2>5. \A b \in wrote[p] : inverse[b] \in 1 .. n /\ h[inverse[b]] = b
    BY Zenon, <2>3 DEF Bijection, Injection, Surjection
  <2>6. inverse \in [wrote[p] -> N]
    BY Zenon, <2>4, <2>5
  <2>7. \A a, b \in wrote[p] : inverse[a] = inverse[b] => a = b
    BY Zenon, <2>5
  <2> HIDE DEF inverse
  <2>8. inverse \in Injection(wrote[p], N)
    BY Zenon, <2>6, <2>7 DEF Injection, IsInjective
  <2> QED BY Zenon, <2>8
<1>3. \A w \in logged : w[1] \in active /\ w[2] \in wrote[w[1]] /\ w = <<w[1], w[2]>>
  <2>1. \A w \in logged : w[1] \in Proc /\ w[2] \in wrote[w[1]] /\ w = <<w[1], w[2]>>
    BY DEF logged
  <2>2. \A p \in Proc : wrote[p] # {} => p \in active
    BY Zenon DEF active, Written
  <2> QED BY Zenon, <2>1, <2>2
<1> HIDE DEF g, N
<1>4. f \in Injection(logged, active \X N)
  <2>1. \A w \in logged : g[w[1]][w[2]] \in N
    BY Zenon, <1>2, <1>3 DEF Injection, active
  <2>2. f \in [logged -> active \X N]
    BY Zenon, <1>3, <2>1
  <2>3. ASSUME NEW v \in logged, NEW w \in logged, f[v] = f[w] PROVE v = w
    <3>0. <<v[1], g[v[1]][v[2]]>> = <<w[1], g[w[1]][w[2]]>>
      BY Zenon, <2>3
    <3>1. v[1] = w[1] /\ g[v[1]][v[2]] = g[v[1]][w[2]]
      BY Zenon, <3>0
    <3>2. v[1] \in Proc /\ v[2] \in wrote[v[1]] /\ w[2] \in wrote[v[1]]
      BY Zenon, <1>3, <3>1 DEF active
    <3>3. \A a, b \in wrote[v[1]] : g[v[1]][a] = g[v[1]][b] => a = b
      BY Zenon, <1>2, <3>2 DEF Injection, IsInjective
    <3>4. v[2] = w[2]
      BY Zenon, <3>1, <3>2, <3>3
    <3> QED BY Zenon, <1>3, <3>1, <3>4
  <2> QED BY Zenon, <2>2, <2>3 DEF Injection, IsInjective
<1> HIDE DEF f
<1>5. /\ IsFiniteSet(active \X N)
      /\ Cardinality(active \X N) = Cardinality(active) * OpBlocks
  BY Zenon, <1>1, ActiveFinite, FS_Product
<1>6. IsFiniteSet(logged) /\ Cardinality(logged) <= Cardinality(active \X N)
  BY Zenon, <1>4, <1>5, FS_Injection
<1> QED BY Zenon, <1>5, <1>6, FS_CardinalityType

(* So the log is not full when a call that is in progress logs a block.    *)
LEMMA RoomToLog == LogInv => SpaceReserved
<1> SUFFICES ASSUME LogInv, NEW p \in Proc, pc[p] = "log_write"
             PROVE  Len(lh) < LOGBLOCKS /\ outstanding >= 1
  BY Zenon DEF LogInv, Space, SpaceReserved
<1>1. outstanding \in Nat /\ Len(lh) \in Nat /\ boot = "up"
  BY DEF LogInv, TypeOK, Quiet
<1>2. outstanding >= 1
  <2>1. p \in active
    BY Zenon DEF active, InOp
  <2>2. outstanding # 0
    BY Zenon, <2>1, ActiveFinite, FS_EmptySet DEF LogInv, Counts
  <2> QED BY <1>1, <2>2
<1>3. Cardinality(logged) \in Nat /\ Cardinality(logged) <= outstanding * OpBlocks
  BY Zenon, LoggedBound DEF LogInv, Counts
<1>4. Len(lh) + outstanding * MAXOPBLOCKS <= LOGBLOCKS + Cardinality(logged)
  BY Zenon, <1>1 DEF LogInv, Space
<1>5. /\ outstanding * OpBlocks < outstanding * MAXOPBLOCKS
      /\ outstanding * OpBlocks \in Nat /\ outstanding * MAXOPBLOCKS \in Nat
  BY Zenon, <1>1, <1>2, Times, LogAssumption
<1> QED BY <1>2, <1>3, <1>4, <1>5, LogAssumption

(* The call that sees itself as the last one is the only one.              *)
LEMMA LastCall == ASSUME LogInv, outstanding = 1, NEW p \in Proc, InOp(p)
                  PROVE  active = {p}
<1>1. Cardinality(active) = 1 /\ p \in active
  BY Zenon DEF LogInv, Counts, active
<1>2. PICK x : active = {x}
  BY Zenon, <1>1, ActiveFinite, FS_Singleton
<1> QED BY Zenon, <1>1, <1>2

(* Without calls in progress nothing is reserved.                          *)
LEMMA NoCall == ASSUME LogInv, \A p \in Proc : ~InOp(p)
                PROVE  outstanding = 0 /\ logged = {}
<1>1. active = {} /\ logged = {}
  BY Zenon DEF active, logged, LogInv, Written
<1> QED BY Zenon, <1>1, FS_EmptySet DEF LogInv, Counts

-------------------------------------------------------------------------------
USE SMTT(20) DEF disk, struct, bufcache, procs, goto

(* Who sleeps has nothing to do with the log, so that waking changes       *)
(* nothing for the calls in progress.                                      *)
LEMMA Woken ==
  ASSUME LogInv, NEW p \in Proc, NEW l, NEW c \in {"log", "&log"}, pc[p] # "sleep",
         l \in {"idle", "begin_op", "sleep"}, wakeup(p, l, c)
  PROVE  /\ pc' \in [Proc -> {"idle", "begin_op", "sleep", "op", "log_write", "brelse",
                              "write_log", "install_trans", "end_commit"}]
         /\ chan' \in [Proc -> {"log", "&log", None}]
         /\ pc'[p] = l /\ Sleepers'
         /\ \A q \in Proc \ {p} : \/ pc'[q] = pc[q]
                                  \/ pc[q] = "sleep" /\ pc'[q] = "begin_op"
<1>1. \A q \in Proc : chan[q] \in {"log", "&log", None} /\ (chan[q] # None => pc[q] = "sleep")
  BY Zenon DEF LogInv, TypeOK, Sleepers
<1>2. /\ chan' \in [Proc -> {"log", "&log", None}]
      /\ \A q \in Proc : chan'[q] = IF chan[q] = c THEN None ELSE chan[q]
  BY Zenon, <1>1 DEF wakeup
<1>3. \A q \in Proc : pc'[q] = IF q = p THEN l ELSE IF chan[q] = c THEN "begin_op" ELSE pc[q]
  BY Zenon DEF wakeup
<1>4. pc' \in [Proc -> {"idle", "begin_op", "sleep", "op", "log_write", "brelse",
                              "write_log", "install_trans", "end_commit"}]
  BY Zenon, <1>3 DEF wakeup, LogInv, TypeOK
<1>5. Sleepers'
  BY Zenon, <1>1, <1>2, <1>3 DEF Sleepers
<1>6. pc'[p] = l /\ \A q \in Proc \ {p} : pc'[q] = pc[q] \/ (pc[q] = "sleep" /\ pc'[q] = "begin_op")
  <2>1. c # None
    BY Zenon, LogAssumption
  <2>2. \A q \in Proc : chan[q] = c => pc[q] = "sleep"
    BY Zenon, <1>1, <2>1
  <2> QED BY Zenon, <1>3, <2>2
<1> QED BY Zenon, <1>2, <1>4, <1>5, <1>6

(* ... and when there is nothing to keep.                                  *)
LEMMA WrittenNone ==
  ASSUME \A q \in Proc : wrote'[q] = {} /\ pc'[q] # "log_write" PROVE Written'
<1> SUFFICES ASSUME NEW q \in Proc
             PROVE  /\ IsFiniteSet(wrote'[q]) /\ Cardinality(wrote'[q]) <= OpBlocks
                    /\ ~InOp(q)' => wrote'[q] = {}
                    /\ \A b \in wrote'[q] : b \in Range(lh')
                    /\ pc'[q] = "log_write" => Cardinality(wrote'[q] \cup {buf'[q]}) <= OpBlocks
  BY Zenon DEF Written
<1> QED BY FS_EmptySet, LogAssumption

(* begin_op lets a call in only when there is space for it besides what    *)
(* the calls in progress may use.                                          *)
LEMMA Inv_begin_op_enter ==
  ASSUME LogInv, NEW p \in Proc, begin_op_enter(p) PROVE LogInv'
<1>1. TypeOK'
  BY DEF LogInv, TypeOK, begin_op_enter
<1>2. Quiet' /\ OneCommitter' /\ Sleepers'
  BY DEF LogInv, TypeOK, begin_op_enter, Quiet, OneCommitter, InOp, Committing, Sleepers
<1>3. Buffers'
  BY DEF LogInv, begin_op_enter, Buffers
<1>4. Counts'
  <2>1. active' = active \cup {p} /\ p \notin active
    BY Zenon DEF LogInv, TypeOK, active, InOp, begin_op_enter
  <2>2. Cardinality(active \cup {p}) = Cardinality(active) + 1
    BY Zenon, <2>1, ActiveFinite, FS_AddElement
  <2>3. outstanding' = Cardinality(active) + 1
    BY Zenon DEF LogInv, Counts, begin_op_enter
  <2> QED BY Zenon, <2>1, <2>2, <2>3 DEF Counts
<1>5. Headers'
  BY DEF LogInv, TypeOK, begin_op_enter, Headers, installing
<1>w. Written'
  <2>1. Written /\ lh' = lh /\ \A q \in Proc : wrote'[q] = wrote[q]
    BY Zenon DEF LogInv, TypeOK, begin_op_enter, Written, InOp
  <2>2. \A q \in Proc : /\ InOp(q) => InOp(q)'
                        /\ pc'[q] = "log_write" => Cardinality(wrote[q] \cup {buf'[q]}) <= OpBlocks
    BY Zenon DEF LogInv, TypeOK, begin_op_enter, InOp, Written
  <2> SUFFICES ASSUME NEW q \in Proc
               PROVE  /\ IsFiniteSet(wrote'[q]) /\ Cardinality(wrote'[q]) <= OpBlocks
                      /\ ~InOp(q)' => wrote'[q] = {}
                      /\ \A b \in wrote'[q] : b \in Range(lh')
                      /\ pc'[q] = "log_write" => Cardinality(wrote'[q] \cup {buf'[q]}) <= OpBlocks
    BY Zenon DEF Written
  <2> QED BY Zenon, <2>1, <2>2 DEF Written
<1>6. Clean' /\ Copied'
  BY DEF LogInv, begin_op_enter, Clean, Copied, bread, installing
<1>7. PinsExact'
  BY DEF LogInv, begin_op_enter, PinsExact
<1>8. Space'
  <2>1. logged' = logged
    BY Zenon DEF LogInv, TypeOK, Written, InOp, logged, begin_op_enter
  <2>2. /\ Len(lh) + (outstanding + 1) * MAXOPBLOCKS <= LOGBLOCKS
        /\ lh' = lh /\ outstanding' = outstanding + 1
    BY LogAssumption, Times DEF begin_op_enter, no_space, LogInv, TypeOK
  <2>3. Cardinality(logged) \in Nat
    BY Zenon, LoggedBound DEF LogInv
  <2>4. outstanding' * MAXOPBLOCKS = (outstanding + 1) * MAXOPBLOCKS
    BY Zenon, <2>2
  <2>5. Len(lh) \in Nat /\ (outstanding + 1) * MAXOPBLOCKS \in Nat
    BY LogAssumption DEF LogInv, TypeOK
  <2> QED BY LogAssumption, <2>1, <2>2, <2>3 DEF Space
<1> QED BY Zenon, <1>w, <1>1, <1>2, <1>3, <1>4, <1>5, <1>6, <1>7, <1>8 DEF LogInv

(* log_write pins the buffer when it adds the block to the header, and not *)
(* when the block is there: the space is that reserved for the call.       *)
LEMMA Inv_log_write ==
  ASSUME LogInv, NEW p \in Proc, log_write(p) PROVE LogInv'
<1>0. /\ buf[p] \in Block /\ cache[buf[p]] # None /\ boot = "up"
      /\ pc' = [pc EXCEPT ![p] = "brelse"] /\ wrote' = [wrote EXCEPT ![p] = @ \cup {buf[p]}]
      /\ \A q \in Proc : pc[q] \notin Committing /\ pc'[q] \notin Committing
  BY Zenon DEF LogInv, TypeOK, Buffers, Quiet, OneCommitter, Committing, InOp, log_write
<1>a. buf[p] \in Range(lh) => lh' = lh /\ pins' = pins
  BY Zenon DEF log_write
<1>b. buf[p] \notin Range(lh) =>
        /\ lh' \in Seq(Block) /\ Len(lh') = Len(lh) + 1 /\ lh'[Len(lh) + 1] = buf[p]
        /\ \A i \in 1 .. Len(lh) : lh'[i] = lh[i]
        /\ pins' = [pins EXCEPT ![buf[p]] = @ + 1]
  <2>1. buf[p] \notin Range(lh) => /\ lh' = Append(lh, buf[p])
                                  /\ pins' = [pins EXCEPT ![buf[p]] = @ + 1]
    BY Zenon DEF log_write
  <2>2. lh \in Seq(Block)
    BY Zenon DEF LogInv, TypeOK
  <2>3. buf[p] \in Block
    BY Zenon, <1>0
  <2>4. ASSUME NEW s, s = Append(lh, buf[p])
        PROVE  /\ s \in Seq(Block) /\ Len(s) = Len(lh) + 1 /\ s[Len(lh) + 1] = buf[p]
               /\ \A i \in 1 .. Len(lh) : s[i] = lh[i]
    BY Zenon, <2>2, <2>3, <2>4, Appended
  <2> QED BY Zenon, <2>1, <2>4
<1>c. Len(lh) \in Nat /\ lh \in Seq(Block) /\ Len(lh) < LOGBLOCKS
  BY DEF LogInv, TypeOK, log_write
<1>d. lh' \in Seq(Block) /\ Len(lh') \in Nat
  BY <1>a, <1>b, <1>c
<1>e. \A c \in Block : c \in Range(lh') <=> c \in Range(lh) \/ c = buf[p]
  <2>1. CASE buf[p] \in Range(lh)
    BY Zenon, <1>a, <2>1
  <2>2. CASE buf[p] \notin Range(lh)
    BY <1>b, <2>2 DEF Range
  <2> QED BY Zenon, <2>1, <2>2
<1>f. \A c \in Block : IF c \in Range(lh) THEN pins[c] = 1 /\ cache[c] # None ELSE pins[c] = 0
  BY <1>0 DEF LogInv, PinsExact, Range, Committing
<1>g. \A c \in Block : IF c \in Range(lh') THEN pins'[c] = 1 /\ cache[c] # None ELSE pins'[c] = 0
  <2>1. CASE buf[p] \in Range(lh)
    BY Zenon, <1>a, <1>f, <2>1
  <2>2. CASE buf[p] \notin Range(lh)
    <3>1. pins' = [pins EXCEPT ![buf[p]] = @ + 1] /\ pins \in [Block -> Nat]
      BY Zenon, <1>b, <2>2 DEF LogInv, TypeOK
    <3>2. \A c \in Block : pins'[c] = IF c = buf[p] THEN pins[c] + 1 ELSE pins[c]
      BY Zenon, <1>0, <3>1
    <3> QED BY <1>0, <1>e, <1>f, <2>2, <3>2
  <2> QED BY Zenon, <2>1, <2>2
<1>1. TypeOK'
  <2>1. pins' \in [Block -> Nat]
    <3>1. pins \in [Block -> Nat]
      BY Zenon DEF LogInv, TypeOK
    <3>2. pins' = pins \/ pins' = [pins EXCEPT ![buf[p]] = @ + 1]
      BY Zenon, <1>a, <1>b
    <3> QED BY <1>0, <3>1, <3>2
  <2> QED BY <1>0, <1>d, <2>1 DEF LogInv, TypeOK, log_write
<1>2. Quiet' /\ OneCommitter' /\ Sleepers'
  BY DEF LogInv, log_write, Quiet, OneCommitter, InOp, Committing, Sleepers
<1>3. Counts'
  <2>1. Counts /\ outstanding' = outstanding
    BY Zenon DEF LogInv, log_write
  <2>2. \A q \in Proc : InOp(q)' <=> InOp(q)
    BY Zenon DEF LogInv, TypeOK, log_write, InOp
  <2>3. active' = active
    BY Zenon, <2>2 DEF active
  <2> QED BY Zenon, <2>1, <2>3 DEF Counts
<1>r. Buffers'
  BY Zenon DEF LogInv, TypeOK, log_write, Buffers
<1>4. Written'
  <2>1. \A q \in Proc : \A c \in wrote'[q] : c \in Range(lh')
    BY Zenon, <1>0, <1>e DEF LogInv, TypeOK, Written
  <2>2. \A q \in Proc \ {p} : /\ wrote'[q] = wrote[q] /\ pc'[q] = pc[q] /\ buf'[q] = buf[q]
                              /\ InOp(q)' <=> InOp(q)
    BY DEF InOp, log_write
  <2>3. wrote'[p] = wrote[p] \cup {buf[p]} /\ pc'[p] = "brelse"
    BY Zenon, <1>0 DEF LogInv, TypeOK
  <2>4. IsFiniteSet(wrote'[p]) /\ Cardinality(wrote'[p]) <= OpBlocks
    <3>1. IsFiniteSet(wrote[p]) /\ Cardinality(wrote[p] \cup {buf[p]}) <= OpBlocks
      BY Zenon DEF LogInv, Written, log_write
    <3>2. IsFiniteSet(wrote[p] \cup {buf[p]})
      BY Zenon, <3>1, FS_AddElement
    <3> QED BY Zenon, <2>3, <3>1, <3>2
  <2> QED BY Zenon, <2>1, <2>2, <2>3, <2>4 DEF LogInv, Written, InOp
<1>5. Headers'
  <2>1. \A i, j \in 1 .. Len(lh') : lh'[i] = lh'[j] => i = j
    <3>1. CASE buf[p] \in Range(lh)
      BY Zenon, <1>a, <3>1 DEF LogInv, Headers
    <3>2. CASE buf[p] \notin Range(lh)
      <4>1. \A i \in 1 .. Len(lh) : lh[i] # buf[p]
        BY <1>c, <3>2 DEF Range
      <4>2. \A i \in 1 .. Len(lh') : i \in 1 .. Len(lh) \/ i = Len(lh) + 1
        BY <1>b, <1>c, <3>2
      <4>3. \A i, j \in 1 .. Len(lh) : lh[i] = lh[j] => i = j
        BY Zenon DEF LogInv, Headers
      <4> QED BY Zenon, <1>b, <3>2, <4>1, <4>2, <4>3
    <3> QED BY Zenon, <3>1, <3>2
  <2>2. Len(lh') <= LOGBLOCKS
    BY <1>a, <1>b, <1>c, LogAssumption
  <2>3. ~ installing /\ ~ installing' /\ boot' = "up" /\ header' = header
    BY Zenon, <1>0 DEF installing, Committing, log_write
  <2> QED BY <2>1, <2>2, <2>3, <1>0 DEF LogInv, Headers
<1>6. Clean'
  <2> SUFFICES ASSUME NEW c \in Block, cache'[c] # None, pins'[c] = 0,
                      \A q \in Proc : buf'[q] = c => pc'[q] # "log_write"
               PROVE  cache'[c] = home'[c]
    BY Zenon DEF Clean
  <2>1. UNCHANGED <<cache, home, buf>>
    BY Zenon DEF log_write
  <2>2. c \notin Range(lh')
    BY <1>g
  <2>3. pins[c] = 0 /\ c # buf[p]
    BY Zenon, <1>e, <1>f, <2>2
  <2>4. \A q \in Proc : buf[q] = c => pc[q] # "log_write"
    BY <1>0, <2>1, <2>3
  <2> QED BY Zenon, <2>1, <2>3, <2>4 DEF LogInv, Clean
<1>7. Copied'
  BY DEF LogInv, log_write, Copied, PinsExact, OneCommitter, Quiet, installing,
     Committing, InOp
<1>8. Space'
  <2>1. logged' = logged \cup {<<p, buf[p]>>}
    BY <1>0 DEF LogInv, TypeOK, logged
  <2>2. buf[p] \notin Range(lh) => <<p, buf[p]>> \notin logged
    BY Zenon DEF LogInv, Written, logged
  <2>3. IsFiniteSet(logged) /\ Cardinality(logged) \in Nat
    BY Zenon, LoggedBound DEF LogInv
  <2>4. Cardinality(logged') = IF <<p, buf[p]>> \in logged THEN Cardinality(logged)
                                                         ELSE Cardinality(logged) + 1
    BY Zenon, <2>1, <2>3, FS_AddElement
  <2>5. outstanding' * MAXOPBLOCKS = outstanding * MAXOPBLOCKS /\ outstanding * MAXOPBLOCKS \in Nat
    BY LogAssumption DEF LogInv, TypeOK, log_write
  <2>6. Len(lh) + outstanding * MAXOPBLOCKS <= LOGBLOCKS + Cardinality(logged)
    BY Zenon, <1>0 DEF LogInv, Space
  <2>7. Len(lh') = Len(lh) \/ (Len(lh') = Len(lh) + 1 /\ <<p, buf[p]>> \notin logged)
    <3>1. CASE buf[p] \in Range(lh)
      <4>1. lh' = lh
        BY Zenon, <1>a, <3>1
      <4> QED BY Zenon, <4>1
    <3>2. CASE buf[p] \notin Range(lh)
      BY Zenon, <1>b, <2>2, <3>2
    <3> QED BY Zenon, <3>1, <3>2
  <2>8. Len(lh') + outstanding' * MAXOPBLOCKS <= LOGBLOCKS + Cardinality(logged')
    <3>1. LOGBLOCKS \in Nat
      BY Zenon, LogAssumption
    <3> QED BY <1>c, <2>3, <2>4, <2>5, <2>6, <2>7, <3>1
  <2> QED BY Zenon, <2>8 DEF Space
<1>9. PinsExact'
  <2>1. cache' = cache /\ \A q \in Proc : pc'[q] # "install_trans"
    BY Zenon, <1>0 DEF Committing, log_write
  <2> QED BY <1>g, <2>1 DEF PinsExact, Range
<1> QED BY Zenon, <1>r, <1>1, <1>2, <1>3, <1>4, <1>5, <1>6, <1>7, <1>8, <1>9 DEF LogInv

(* end_op gives back what its call has not used; as a call logs fewer than *)
(* MAXOPBLOCKS blocks, that is at least as much as it stops counting.      *)
LEMMA Inv_end_op_others ==
  ASSUME LogInv, NEW p \in Proc, end_op_others(p) PROVE LogInv'
<1>0. wakeup(p, "idle", "&log") /\ pc[p] # "sleep"
  BY Zenon DEF end_op_others
<1>a. /\ pc'[p] = "idle" /\ Sleepers'
      /\ \A q \in Proc \ {p} : \/ pc'[q] = pc[q]
                               \/ pc[q] = "sleep" /\ pc'[q] = "begin_op"
      /\ pc' \in [Proc -> {"idle", "begin_op", "sleep", "op", "log_write", "brelse",
                           "write_log", "install_trans", "end_commit"}]
      /\ chan' \in [Proc -> {"log", "&log", None}]
  BY Zenon, <1>0, Woken
<1>b. \A q \in Proc : /\ pc'[q] = "log_write" <=> pc[q] = "log_write"
                      /\ pc'[q] = "install_trans" <=> pc[q] = "install_trans"
                      /\ pc'[q] = "write_log" <=> pc[q] = "write_log"
  BY Zenon, <1>a DEF end_op_others
<1>c. UNCHANGED <<home, logblock, header, lh, cache, pins, buf, tail, boot>>
  BY Zenon DEF end_op_others
<1>1. TypeOK'
  <2>1. outstanding' \in Nat /\ wrote' \in [Proc -> SUBSET Block]
    BY DEF LogInv, TypeOK, end_op_others
  <2> QED BY Zenon, <1>a, <2>1 DEF LogInv, TypeOK, end_op_others
<1>2. Quiet' /\ OneCommitter'
  BY Zenon, <1>a DEF LogInv, end_op_others, Quiet, OneCommitter, InOp, Committing
<1>3. Sleepers'
  BY Zenon, <1>a
<1>4. Buffers'
  BY Zenon, <1>a DEF LogInv, end_op_others, Buffers
<1>5. Counts'
  <2>1. active' = active \ {p} /\ p \in active
    BY Zenon, <1>a DEF LogInv, TypeOK, active, InOp, end_op_others
  <2>2. Cardinality(active \ {p}) = Cardinality(active) - 1
    BY Zenon, <2>1, ActiveFinite, FS_RemoveElement
  <2>3. outstanding' = Cardinality(active) - 1
    BY Zenon DEF LogInv, Counts, end_op_others
  <2> QED BY Zenon, <2>1, <2>2, <2>3 DEF Counts
<1>6. Written'
  <2>1. wrote'[p] = {} /\ \A q \in Proc \ {p} : wrote'[q] = wrote[q] /\ (InOp(q)' <=> InOp(q))
    BY Zenon, <1>a DEF LogInv, TypeOK, InOp, end_op_others
  <2>2. /\ IsFiniteSet(wrote'[p]) /\ Cardinality(wrote'[p]) <= OpBlocks
        /\ pc'[p] # "log_write"
    BY LogAssumption, <1>a, <2>1, FS_EmptySet
  <2> QED BY Zenon, <1>b, <1>c, <2>1, <2>2 DEF LogInv, Written
<1>7. Headers'
  BY <1>b, <1>c DEF LogInv, Headers, installing
<1>8. Clean'
  BY Zenon, <1>b, <1>c DEF LogInv, Clean
<1>9. Copied'
  BY Zenon, <1>b, <1>c DEF LogInv, Copied, installing, bread
<1>10. Space'
  <2> DEFINE mine == {p} \X wrote[p]
             rest == logged \ mine
  <2>1. logged' = rest /\ mine \subseteq logged
    BY Zenon DEF LogInv, TypeOK, logged, end_op_others
  <2>2. Cardinality(mine) \in Nat /\ Cardinality(mine) <= OpBlocks
    <3>1. IsFiniteSet(wrote[p]) /\ Cardinality(wrote[p]) <= OpBlocks
      BY Zenon DEF LogInv, Written
    <3>2. IsFiniteSet({p}) /\ Cardinality({p}) = 1
      BY Zenon, FS_Singleton
    <3>3. Cardinality(mine) = Cardinality({p}) * Cardinality(wrote[p])
      BY Zenon, <3>1, <3>2, FS_Product
    <3>4. Cardinality(wrote[p]) \in Nat
      BY Zenon, <3>1, FS_CardinalityType
    <3> QED BY <3>1, <3>2, <3>3, <3>4
  <2>3. IsFiniteSet(logged) /\ Cardinality(logged) \in Nat
    BY Zenon, LoggedBound DEF LogInv
  <2>4. Cardinality(rest) = Cardinality(logged) - Cardinality(mine)
    <3>1. logged \cap mine = mine
      BY Zenon, <2>1
    <3>2. Cardinality(rest) = Cardinality(logged) - Cardinality(logged \cap mine)
      BY Zenon, <2>3, FS_Difference
    <3> QED BY Zenon, <3>1, <3>2
  <2> HIDE DEF mine, rest
  <2>5. PICK m \in Nat : outstanding = m + 1
    <3>1. outstanding - 1 \in Nat /\ outstanding = (outstanding - 1) + 1
      BY DEF LogInv, TypeOK, end_op_others
    <3> QED BY Zenon, <3>1
  <2>6. outstanding' = m /\ lh' = lh /\ boot' = boot
    BY <2>5 DEF end_op_others
  <2>7. (m + 1) * MAXOPBLOCKS = m * MAXOPBLOCKS + MAXOPBLOCKS /\ m * MAXOPBLOCKS \in Nat
    BY Zenon, Times, LogAssumption
  <2>8. boot = "up" => Len(lh) + (m + 1) * MAXOPBLOCKS <= LOGBLOCKS + Cardinality(logged)
    BY Zenon, <2>5 DEF LogInv, Space
  <2>9. boot = "up" => Len(lh) + m * MAXOPBLOCKS <= LOGBLOCKS + Cardinality(rest)
    <3>1. Len(lh) \in Nat
      BY DEF LogInv, TypeOK
    <3> QED BY <2>2, <2>3, <2>4, <2>8, LogAssumption
  <2> QED BY Zenon, <2>1, <2>6, <2>9 DEF Space
<1>11. PinsExact'
  BY <1>b, <1>c DEF LogInv, PinsExact
<1> QED BY Zenon, <1>1, <1>2, <1>3, <1>4, <1>5, <1>6, <1>7, <1>8, <1>9, <1>10, <1>11 DEF
    LogInv

(* The last call becomes the committer; there is no other.                 *)
LEMMA Inv_end_op_last ==
  ASSUME LogInv, NEW p \in Proc, end_op_last(p) PROVE LogInv'
<1>a. active = {p}
  BY Zenon, LastCall DEF end_op_last, InOp
<1>b. \A q \in Proc : ~InOp(q)'
  BY Zenon, <1>a DEF LogInv, TypeOK, end_op_last, InOp, active
<1>1. TypeOK'
  BY LogAssumption DEF LogInv, TypeOK, end_op_last
<1>2. Quiet' /\ Sleepers'
  BY Zenon DEF LogInv, TypeOK, end_op_last, Quiet, Sleepers
<1>3. OneCommitter'
  <2>1. \A q \in Proc : pc[q] \notin Committing
    BY Zenon DEF LogInv, OneCommitter, end_op_last, InOp
  <2>2. \A q \in Proc \ {p} : pc'[q] = pc[q]
    BY DEF TypeOK, end_op_last
  <2> QED BY <1>b, <2>1 DEF OneCommitter, end_op_last
<1>4. Buffers'
  BY DEF LogInv, end_op_last, Buffers
<1>5. Counts'
  <2>1. active' = {}
    BY Zenon, <1>b DEF active
  <2> QED BY Zenon, <2>1, FS_EmptySet DEF Counts, end_op_last
<1>6. Headers'
  BY DEF LogInv, end_op_last, Headers, installing
<1>7. Written'
  <2>1. \A q \in Proc : wrote'[q] = {}
    BY Zenon, <1>a DEF LogInv, TypeOK, Written, end_op_last, active
  <2>2. \A q \in Proc : pc'[q] # "log_write"
    BY Zenon, <1>b DEF InOp
  <2> QED BY Zenon, <2>1, <2>2, WrittenNone
<1>8. Clean' /\ Copied'
  BY DEF LogInv, end_op_last, Clean, Copied, bread, installing
<1>9. Space'
  <2>1. outstanding' * MAXOPBLOCKS = 0 /\ Len(lh') \in Nat /\ Len(lh') <= LOGBLOCKS
    BY LogAssumption DEF LogInv, Headers, end_op_last
  <2>2. logged' = {}
    BY Zenon, <1>b, <1>7 DEF logged, Written
  <2> QED BY <2>1, <2>2, FS_EmptySet, LogAssumption DEF Space
<1>10. PinsExact'
  BY Zenon DEF LogInv, end_op_last, PinsExact, OneCommitter, InOp, Committing, Range
<1> QED BY Zenon, <1>1, <1>2, <1>3, <1>4, <1>5, <1>6, <1>7, <1>8, <1>9, <1>10 DEF LogInv

LEMMA Inv_erase ==
  ASSUME LogInv, NEW p \in Proc, erase(p) PROVE LogInv'
<1>a. \A q \in Proc : ~InOp(q) /\ wrote[q] = {}
  BY Zenon DEF LogInv, erase, OneCommitter, Committing, Written
<1>b. outstanding = 0 /\ logged = {}
  BY Zenon, <1>a, NoCall
<1>c. \A q \in Proc : pc'[q] # "log_write"
  BY <1>a DEF erase, InOp
<1>1. TypeOK'
  BY DEF LogInv, TypeOK, erase, clear_log
<1>2. Quiet' /\ OneCommitter' /\ Sleepers'
  BY DEF LogInv, erase, clear_log, Quiet, OneCommitter, InOp, Committing, Sleepers
<1>3. Counts' /\ Buffers'
  BY Zenon DEF LogInv, TypeOK, erase, clear_log, Counts, active, InOp, Buffers
<1>4. Written'
  <2>1. wrote' = wrote
    BY Zenon DEF erase, clear_log
  <2> QED BY Zenon, <1>a, <1>c, <2>1, WrittenNone
<1>5. Headers'
  BY LogAssumption DEF LogInv, TypeOK, erase, clear_log, Headers, Quiet, installing,
     Range
<1>6. Clean' /\ Copied'
  BY DEF LogInv, TypeOK, erase, clear_log, Clean, Range, Copied, bread, installing
<1>7. PinsExact'
  BY DEF LogInv, TypeOK, erase, clear_log, PinsExact, Range
<1>8. Space'
  <2>1. logged' = {} /\ outstanding' * MAXOPBLOCKS = 0 /\ Len(lh') = 0
    BY <1>b, LogAssumption DEF erase, clear_log, logged
  <2> QED BY <2>1, FS_EmptySet, LogAssumption DEF Space
<1> QED BY Zenon, <1>1, <1>2, <1>3, <1>4, <1>5, <1>6, <1>7, <1>8 DEF LogInv

LEMMA Inv_end_commit ==
  ASSUME LogInv, NEW p \in Proc, end_commit(p) PROVE LogInv'
<1>0. wakeup(p, "idle", "&log") /\ pc[p] # "sleep"
  BY Zenon DEF end_commit
<1>a. /\ pc'[p] = "idle" /\ Sleepers'
      /\ \A q \in Proc \ {p} : \/ pc'[q] = pc[q]
                               \/ pc[q] = "sleep" /\ pc'[q] = "begin_op"
      /\ pc' \in [Proc -> {"idle", "begin_op", "sleep", "op", "log_write", "brelse",
                           "write_log", "install_trans", "end_commit"}]
      /\ chan' \in [Proc -> {"log", "&log", None}]
  BY Zenon, <1>0, Woken
<1>b. \A q \in Proc : /\ pc'[q] = "log_write" <=> pc[q] = "log_write"
                      /\ pc'[q] = "install_trans" <=> pc[q] = "install_trans"
                      /\ pc'[q] = "write_log" <=> pc[q] = "write_log"
  BY Zenon, <1>a DEF end_commit
<1>c. UNCHANGED <<home, logblock, header, lh, cache, pins, buf, tail, boot>>
  BY Zenon DEF end_commit
<1>1. Space'
  BY Zenon DEF LogInv, end_commit, Space, logged
<1>2. TypeOK'
  BY <1>a DEF LogInv, TypeOK, end_commit
<1>3. Quiet' /\ OneCommitter'
  BY Zenon, <1>a DEF LogInv, end_commit, Quiet, OneCommitter, Committing
<1>4. Sleepers'
  BY Zenon, <1>a
<1>5. Counts' /\ Buffers'
  BY Zenon, <1>a DEF LogInv, end_commit, Counts, active, InOp, Buffers
<1>6. Written'
  BY Zenon, <1>a DEF LogInv, end_commit, Written, InOp
<1>7. Headers'
  BY <1>b, <1>c DEF LogInv, Headers, installing
<1>8. Clean'
  BY Zenon, <1>b, <1>c DEF LogInv, Clean
<1>9. Copied'
  BY Zenon, <1>b, <1>c DEF LogInv, Copied, installing, bread
<1>10. PinsExact'
  BY <1>b, <1>c DEF LogInv, PinsExact
<1> QED BY Zenon, <1>1, <1>2, <1>3, <1>4, <1>5, <1>6, <1>7, <1>8, <1>9, <1>10 DEF LogInv

(* Recovery ends with an empty log; nothing else runs meanwhile.           *)
LEMMA Inv_recover_clear ==
  ASSUME LogInv, recover_clear PROVE LogInv'
<1>a. \A q \in Proc : ~InOp(q) /\ wrote[q] = {}
  BY Zenon DEF LogInv, recover_clear, Quiet, InOp, Written
<1>b. outstanding = 0 /\ logged = {}
  BY Zenon, <1>a, NoCall
<1>e. /\ lh' = <<>> /\ header' = <<>> /\ boot = "install" /\ boot' = "up"
      /\ UNCHANGED <<home, logblock, outstanding, committing, cache, pins>>
      /\ UNCHANGED <<chan, buf, wrote, pc, tail, crashes>>
  BY Zenon DEF recover_clear, clear_log
<1>f. \A q \in Proc : pc[q] = "idle"
  BY Zenon, <1>e DEF LogInv, Quiet
<1>c. \A q \in Proc : pc'[q] # "log_write"
  BY Zenon, <1>f, <1>e
<1>1. OneCommitter'
  BY Zenon, <1>e DEF LogInv, OneCommitter, InOp, Committing
<1>9. Sleepers' /\ Buffers'
  BY Zenon, <1>e DEF LogInv, Sleepers, Buffers
<1>10. Counts'
  BY Zenon, <1>e DEF LogInv, Counts, active, InOp
<1>11. Clean'
  BY Zenon, <1>e DEF LogInv, Clean
<1>2. TypeOK'
  BY <1>e DEF LogInv, TypeOK
<1>3. Quiet'
  BY Zenon, <1>e DEF Quiet
<1>4. Written'
  BY Zenon, <1>a, <1>c, <1>e, WrittenNone
<1>5. Headers'
  BY <1>e, LogAssumption DEF Headers
<1>6. Copied'
  BY <1>e, <1>f DEF Copied
<1>7. Space'
  <2>1. logged' = {} /\ outstanding' * MAXOPBLOCKS = 0 /\ Len(lh') = 0
    BY <1>b, <1>e, LogAssumption DEF logged
  <2> QED BY <2>1, FS_EmptySet, LogAssumption DEF Space
<1>8. PinsExact'
  <2>1. lh' = <<>> /\ \A c \in Block : pins'[c] = 0
    BY Zenon, <1>e DEF LogInv, Quiet
  <2>2. \A n \in Nat \ {0} : n .. Len(lh') = {}
    BY <2>1
  <2>3. tail' \in Nat \ {0}
    BY <1>2, LogAssumption DEF TypeOK
  <2> QED BY <2>1, <2>2, <2>3 DEF PinsExact
<1> QED BY Zenon, <1>1, <1>2, <1>3, <1>4, <1>5, <1>6, <1>7, <1>8, <1>9, <1>10, <1>11 DEF
    LogInv

(* A crash keeps the disk and what the disk holds of the log.              *)
LEMMA Inv_crash == ASSUME LogInv, crash PROVE LogInv'
<1>1. TypeOK' /\ Quiet' /\ Sleepers' /\ Buffers' /\ Clean'
  BY LogAssumption DEF LogInv, TypeOK, Quiet, Sleepers, Buffers, Clean, crash
<1>2. \A p \in Proc : pc'[p] = "idle" /\ wrote'[p] = {}
  BY Zenon DEF crash
<1>a. lh' = <<>> /\ boot' = "read_head"
  BY Zenon DEF crash
<1>b. OneCommitter' /\ ~ installing'
  BY Zenon, <1>2 DEF OneCommitter, Committing, installing
<1>3. Space' /\ PinsExact' /\ Copied'
  BY Zenon, <1>2, <1>a, <1>b DEF Space, PinsExact, Copied
<1>4. Counts'
  <2>1. active' = {}
    BY Zenon, <1>2 DEF active, InOp
  <2> QED BY Zenon, <2>1, FS_EmptySet DEF Counts, crash
<1>5. Written'
  BY <1>2, FS_EmptySet, LogAssumption DEF Written
<1>6. Headers'
  BY <1>2, LogAssumption DEF LogInv, Headers, installing, crash
<1> QED BY Zenon, <1>1, <1>b, <1>3, <1>4, <1>5, <1>6 DEF LogInv

(* The machine starts with an empty log.                                   *)
LEMMA LogInitInv == Init => LogInv
<1> SUFFICES ASSUME Init PROVE LogInv
  OBVIOUS
<1>1. TypeOK /\ Quiet /\ Sleepers /\ Buffers /\ Clean
  BY LogAssumption DEF Init, TypeOK, Quiet, Sleepers, Buffers, Clean
<1>2. \A p \in Proc : pc[p] = "idle" /\ wrote[p] = {}
  BY Zenon DEF Init
<1>3. OneCommitter /\ Space /\ PinsExact /\ Copied
  BY Zenon, <1>2 DEF OneCommitter, Committing, Space, PinsExact, Copied, installing, Init
<1>4. Counts
  <2>1. active = {}
    BY Zenon, <1>2 DEF active, InOp
  <2> QED BY Zenon, <2>1, FS_EmptySet DEF Counts, Init
<1>5. Written
  BY <1>2, FS_EmptySet, LogAssumption DEF Written
<1>6. Headers
  BY LogAssumption DEF Headers, Init
<1> QED BY Zenon, <1>1, <1>3, <1>4, <1>5, <1>6 DEF LogInv

===============================================================================
