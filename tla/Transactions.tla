----------------------------- MODULE Transactions -----------------------------
(***************************************************************************)
(* What the log (kernel/log.c) promises the file system: the calls between *)
(* begin_op and end_op change the blocks in memory; what a crash leaves is *)
(* the contents at some moment at which no call was in progress.           *)
(***************************************************************************)
CONSTANTS Proc, Block, Value, InitValue

VARIABLES mem,      \* the contents that calls see
          stable,   \* the contents that a crash leaves
          active    \* the processes between begin_op and end_op

vars == <<mem, stable, active>>

Init == /\ mem = [b \in Block |-> InitValue]
        /\ stable = mem
        /\ active = {}

Begin(p) ==
  /\ p \notin active
  /\ active' = active \cup {p}
  /\ UNCHANGED <<mem, stable>>

Write(p, b, v) ==
  /\ p \in active
  /\ mem' = [mem EXCEPT ![b] = v]
  /\ UNCHANGED <<stable, active>>

End(p) ==
  /\ p \in active
  /\ active' = active \ {p}
  /\ UNCHANGED <<mem, stable>>

Commit ==
  /\ active = {}
  /\ stable' = mem
  /\ UNCHANGED <<mem, active>>

Crash ==
  /\ mem' = stable
  /\ active' = {}
  /\ UNCHANGED stable

Next ==
  \/ \E p \in Proc : Begin(p) \/ End(p) \/ \E b \in Block, v \in Value : Write(p, b, v)
  \/ Commit \/ Crash

Spec == Init /\ [][Next]_vars

=============================================================================
