----------------------------- MODULE LogInvariant -----------------------------
(***************************************************************************)
(* The inductive invariant of the log.  It adds to LogExact who may commit *)
(* and when, what the calls in progress have logged, and how far the loops *)
(* of commit and of recovery have come.                                    *)
(***************************************************************************)
EXTENDS Log

Committing == {"write_log", "install_trans", "end_commit"}
installing == \E p \in Proc : pc[p] = "install_trans"
active     == {p \in Proc : InOp(p)}

(* Before the log is recovered nothing else runs.                          *)
Quiet ==
  boot # "up" => /\ \A p \in Proc : pc[p] = "idle"
                 /\ \A b \in Block : pins[b] = 0

(* One process commits, and no call is in progress meanwhile.              *)
OneCommitter ==
  /\ \A p, q \in Proc : pc[p] \in Committing /\ pc[q] \in Committing => p = q
  /\ \A p, q \in Proc : pc[p] \in Committing => ~InOp(q)
  /\ \A p \in Proc : pc[p] \in Committing => committing = 1

Sleepers == \A p \in Proc : chan[p] # None => pc[p] = "sleep"

Counts == outstanding = Cardinality(active)

(* A process has a buffer between modify and brelse, to itself.            *)
Buffers ==
  /\ \A p \in Proc : buf[p] # None <=> pc[p] \in {"log_write", "brelse"}
  /\ \A p \in Proc : buf[p] # None => cache[buf[p]] # None
  /\ \A p, q \in Proc : buf[p] # None /\ buf[p] = buf[q] => p = q

(* The blocks a call has logged are in the header, and are few.            *)
Written ==
  \A p \in Proc :
    /\ IsFiniteSet(wrote[p]) /\ Cardinality(wrote[p]) <= OpBlocks
    /\ ~InOp(p) => wrote[p] = {}
    /\ \A b \in wrote[p] : b \in Range(lh)
    /\ pc[p] = "log_write" => Cardinality(wrote[p] \cup {buf[p]}) <= OpBlocks

(* The header on the disk is that in memory from write_head to erase, and  *)
(* during recovery; else it is empty.                                      *)
Headers ==
  /\ Len(lh) <= LOGBLOCKS /\ Len(header) <= LOGBLOCKS
  /\ \A i, j \in 1 .. Len(lh) : lh[i] = lh[j] => i = j
  /\ \A i, j \in 1 .. Len(header) : header[i] = header[j] => i = j
  /\ boot = "install" \/ installing => header = lh
  /\ boot = "up" /\ ~installing => header = <<>>

(* A buffer that is neither pinned nor being changed holds what is on disk.*)
Clean ==
  \A b \in Block :
    (/\ cache[b] # None /\ pins[b] = 0
     /\ \A p \in Proc : buf[p] = b => pc[p] # "log_write") => cache[b] = home[b]

(* How far the loops of commit and of recovery have come.                  *)
Copied ==
  /\ \A p \in Proc : pc[p] = "write_log" =>
       \A i \in 1 .. Len(lh) : i < tail => logblock[i] = bread(lh[i])
  /\ installing => \A i \in 1 .. Len(lh) : logblock[i] = bread(lh[i])
  /\ boot = "install" \/ installing =>
       \A i \in 1 .. Len(lh) : i < tail => home[lh[i]] = logblock[i]

(* The space that the calls in progress may still use is free.             *)
Space == boot = "up" =>
           Len(lh) + outstanding * MAXOPBLOCKS <= LOGBLOCKS + Cardinality(logged)

LogInv ==
  /\ TypeOK /\ Quiet /\ OneCommitter /\ Sleepers /\ Counts /\ Buffers
  /\ Written /\ Headers /\ Clean /\ Copied
  /\ Space /\ PinsExact

=============================================================================
