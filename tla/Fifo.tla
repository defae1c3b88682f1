-------------------------------- MODULE Fifo --------------------------------
(***************************************************************************)
(* What a pipe (kernel/pipe.c) promises: a bounded queue of bytes, each    *)
(* byte written coming out once, in the order of writing.  A byte is       *)
(* named for the process that wrote it.                                    *)
(***************************************************************************)
EXTENDS Naturals, Sequences

CONSTANTS Proc, Capacity, Nobody

VARIABLES queue,   \* the bytes written and not yet read
          alive,   \* the pipe exists
          got      \* the byte read last

fifoVars == <<queue, alive, got>>

FifoInit == queue = <<>> /\ alive = TRUE /\ got = Nobody

Put(p) ==
  /\ alive /\ Len(queue) < Capacity
  /\ queue' = Append(queue, p)
  /\ UNCHANGED <<alive, got>>

Get ==
  /\ alive /\ queue # <<>>
  /\ got' = Head(queue)
  /\ queue' = Tail(queue)
  /\ UNCHANGED alive

Free == alive /\ alive' = FALSE /\ queue' = <<>> /\ UNCHANGED got

Renew == ~alive /\ alive' = TRUE /\ got' = Nobody /\ UNCHANGED queue

FifoNext == (\E p \in Proc : Put(p)) \/ Get \/ Free \/ Renew

FifoSpec == FifoInit /\ [][FifoNext]_fifoVars

=============================================================================
