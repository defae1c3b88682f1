----------------------------- MODULE MCStorage -----------------------------
(* The log and the buffer cache.  The log has the buffer cache as a        *)
(* contract, so they share no state here: a behaviour is one of a single   *)
(* layer, the other staying as it is at first.                             *)
EXTENDS Log, BufferCache

CONSTANTS b1, b2, b3, b4

(* b4 is a block of the log, b1 its home and an indirect block, b2 the     *)
(* bitmap.                                                                 *)
MCNested == {<<b4, b1>>, <<b1, b2>>}

VARIABLE which

storageVars == <<which, vars, bufVars>>

MCInit == Init /\ BufferCacheInit /\ which \in {"log", "buffers"}

MCNext ==
  \/ which = "log" /\ Next /\ UNCHANGED <<which, bufVars>>
  \/ which = "buffers" /\ BufferCacheNext /\ UNCHANGED <<which, vars>>

(* The fairness of Log's FairSpec: processes are scheduled, and every call *)
(* comes to its end_op.                                                    *)
LogFairness ==
  /\ WF_vars(which = "log" /\ (read_head \/ recover_install \/ recover_clear))
  /\ \A p \in Proc : /\ WF_vars(which = "log" /\ BeginOp(p))
                     /\ WF_vars(which = "log" /\ (log_write(p) \/ brelse(p)))
                     /\ SF_vars(which = "log" /\ EndOp(p))
                     /\ WF_vars(which = "log" /\ Commit(p))

MCSpec == MCInit /\ [][MCNext]_storageVars /\ LogFairness

StorageTypeOK == /\ which = "log" => TypeOK
                 /\ which = "buffers" => BufferCacheTypeOK

=============================================================================
