----------------------------- MODULE StorageProof -----------------------------
(***************************************************************************)
(* The two refinements on which a file system call rests, for any number   *)
(* of processes, buffers, blocks and crashes: the log implements           *)
(* Transactions over the contract of BlockCache, and bio.c keeps that      *)
(* contract.                                                               *)
(***************************************************************************)
EXTENDS LogProof, LogStepProof, BufferCacheProof, BufferContractProof

(* LogInv is inductive.                                                    *)
LEMMA LogNextInv == LogInv /\ [Next]_vars => LogInv'
<1> SUFFICES ASSUME LogInv, [Next]_vars PROVE LogInv'
  OBVIOUS
<1>1. CASE read_head \/ recover_install
  BY Zenon, <1>1, Inv_read_head, Inv_recover_install
<1>2. CASE recover_clear \/ crash
  BY Zenon, <1>2, Inv_recover_clear, Inv_crash
<1>3. ASSUME NEW p \in Proc, begin_op_call(p) \/ BeginOp(p) PROVE LogInv'
  <2>1. CASE begin_op_call(p) \/ begin_op_committing(p)
    BY Zenon, <2>1, Inv_begin_op_call, Inv_begin_op_committing
  <2>2. CASE begin_op_no_space(p) \/ begin_op_enter(p)
    BY Zenon, <2>2, Inv_begin_op_no_space, Inv_begin_op_enter
  <2> QED BY Zenon, <1>3, <2>1, <2>2 DEF BeginOp
<1>4. ASSUME NEW p \in Proc, NEW b \in Block, NEW v \in Value, modify(p, b, v) PROVE LogInv'
  BY Zenon, <1>4, Inv_modify
<1>5. ASSUME NEW p \in Proc, log_write(p) \/ brelse(p) PROVE LogInv'
  BY Zenon, <1>5, Inv_log_write, Inv_brelse
<1>6. ASSUME NEW p \in Proc, EndOp(p) PROVE LogInv'
  BY Zenon, <1>6, Inv_end_op_others, Inv_end_op_last DEF EndOp
<1>7. ASSUME NEW p \in Proc, Commit(p) PROVE LogInv'
  <2>1. CASE write_log(p) \/ write_head(p)
    BY Zenon, <2>1, Inv_write_log, Inv_write_head
  <2>2. CASE install_trans(p) \/ erase(p)
    BY Zenon, <2>2, Inv_install_trans, Inv_erase
  <2>3. CASE end_commit(p)
    BY Zenon, <2>3, Inv_end_commit
  <2> QED BY Zenon, <1>7, <2>1, <2>2, <2>3 DEF Commit
<1>8. ASSUME NEW b \in Block, read(b) \/ recycle(b) PROVE LogInv'
  BY Zenon, <1>8, Inv_read, Inv_recycle
<1>9. CASE UNCHANGED vars
  BY Zenon, <1>9, Inv_stutter
<1> QED BY Zenon, <1>1, <1>2, <1>3, <1>4, <1>5, <1>6, <1>7, <1>8, <1>9 DEF Next

(* The log always has room for what the calls in progress may still log:   *)
(* log_write does not panic; and exactly the buffers of the blocks that    *)
(* are in the log and not yet home are pinned.                             *)
THEOREM LogSound == Spec => []LogExact
<1>1. LogInv => LogExact
  BY RoomToLog DEF LogInv, LogExact
<1> QED BY <1>1, LogInitInv, LogNextInv, PTL DEF Spec

(* The log implements Transactions: whenever the machine stops, also while *)
(* it recovers, the blocks are as they were at a moment without calls in   *)
(* progress, and the calls that had ended when the header was written are  *)
(* in.                                                                     *)
THEOREM LogImplementsTransactions == Spec => TransactionsSpec
<1>1. Spec => []LogInv
  BY LogInitInv, LogNextInv, PTL DEF Spec
<1>2. Init => T!Init
  BY LogInitInv, LogInitRefines
<1>3. LogInv /\ LogInv' /\ [Next]_vars => [T!Next]_(T!vars)
  BY LogNextRefines
<1> QED BY <1>1, <1>2, <1>3, PTL DEF Spec, TransactionsSpec, T!Spec

(* bio.c keeps the contract that the log is built on: for any number of    *)
(* processes, buffers and blocks, a block has one copy, one process uses   *)
(* it at a time, and bget recycles only what is the same on the disk.      *)
THEOREM BufferCacheImplements == BufferCacheSpec => BufferCacheContract
<1>1. BufferCacheInit => BufInv /\ DataExact /\ Contract!CacheInit
  BY BufInitInv, DataInit, ImplInit
<1>2. BufInv => FreeIsUnused
  BY FreeIsNobodys DEF FreeIsUnused
<1>3. BufInv /\ DataExact /\ [BufferCacheNext]_bufVars => BufInv' /\ DataExact'
  BY <1>2, BufNextInv, DataNext
<1>4. BufInv /\ DataExact /\ BufInv' /\ [BufferCacheNext]_bufVars =>
        UNCHANGED Contract!cacheVars \/ Contract!CacheNext
  BY <1>2, ImplNext DEF Implements
<1> QED BY <1>1, <1>3, <1>4, PTL DEF BufferCacheSpec, BufferCacheContract

=============================================================================
