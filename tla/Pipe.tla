-------------------------------- MODULE Pipe --------------------------------
(***************************************************************************)
(* A pipe (kernel/pipe.c) shared by several readers and writers: the ring  *)
(* buffer, the sleeps on &nread and &nwrite, the ends closing, and kkill   *)
(* waking a process out of its sleep.                                      *)
(*                                                                         *)
(* A step is one pass of a loop.  pi->lock is held over many steps; what   *)
(* p->lock alone protects (killed, the wakeup by kkill) may change between *)
(* them.  copyin and copyout may fail at any byte.                         *)
(***************************************************************************)
EXTENDS Naturals, Sequences

CONSTANTS PipeProc, PIPESIZE,
          UINT,           \* the modulus of nread and nwrite, 2^32 in the code
          PipeCounts,     \* the byte counts of the calls
          PipeEnds,       \* the ends each process is given by pipe and fork
          PipeVictims,    \* bound: the processes that kkill is called for
          Nobody

ASSUME PipeAssumption ==
  /\ PIPESIZE \in Nat \ {0}
  /\ UINT \in Nat \ {0} /\ UINT % PIPESIZE = 0 /\ UINT > PIPESIZE
  /\ PipeCounts \subseteq Nat
  /\ PipeEnds \in [PipeProc -> SUBSET {"r", "w"}]
  /\ PipeVictims \subseteq PipeProc /\ Nobody \notin PipeProc

VARIABLES pipe,          \* struct pipe, and whether its memory is allocated
          pipe_lock,     \* who holds pi->lock
          pipe_op,       \* each process: where it is, bytes done, bytes asked
          pipe_killed,   \* p->killed
          pipe_ends,     \* the ends it has open
          pipe_got       \* the byte read last

pipeVars == <<pipe, pipe_lock, pipe_op, pipe_killed, pipe_ends, pipe_got>>

new_pipe == [data |-> [k \in 0 .. PIPESIZE - 1 |-> Nobody], nread |-> 0, nwrite |-> 0,
             readopen |-> TRUE, writeopen |-> TRUE, allocated |-> TRUE]

pipe_idle == [at |-> "user", i |-> 0, n |-> 0]

PipeInit ==
  /\ pipe = new_pipe /\ pipe_lock = Nobody
  /\ pipe_op = [p \in PipeProc |-> pipe_idle]
  /\ pipe_killed = [p \in PipeProc |-> FALSE]
  /\ pipe_ends = PipeEnds
  /\ pipe_got = Nobody

pipe_empty == pipe.nread = pipe.nwrite
pipe_full  == pipe.nwrite = (pipe.nread + PIPESIZE) % UINT

pipe_at(p) == pipe_op[p].at

(* sleep and wakeup on &nread (c = "nread") or &nwrite; a process that is  *)
(* woken still has to take pi->lock.                                       *)
pipe_go(op, p, l)  == [op EXCEPT ![p].at = l]
pipe_wakeup(op, c) ==
  [q \in PipeProc |-> IF op[q].at = c THEN [op[q] EXCEPT !.at = c \o "_woken"] ELSE op[q]]

-----------------------------------------------------------------------------
pipe_call(p, end, n, l) ==
  /\ pipe_at(p) = "user" /\ ~pipe_killed[p] /\ end \in pipe_ends[p]
  /\ pipe_lock = Nobody /\ pipe_lock' = p
  /\ pipe_op' = [pipe_op EXCEPT ![p] = [at |-> l, i |-> 0, n |-> n]]
  /\ UNCHANGED <<pipe, pipe_killed, pipe_ends, pipe_got>>

(* The return of a call, after the wakeup on c (Nobody: no wakeup).          *)
pipe_return(p, c) ==
  /\ pipe_op' = [pipe_wakeup(pipe_op, c) EXCEPT ![p] = pipe_idle]
  /\ pipe_lock' = Nobody
  /\ UNCHANGED <<pipe, pipe_killed, pipe_ends, pipe_got>>

pipe_goto(p, l) ==
  /\ pipe_op' = pipe_go(pipe_op, p, l)
  /\ UNCHANGED <<pipe, pipe_lock, pipe_killed, pipe_ends, pipe_got>>

pipewrite_call(p, n) == pipe_call(p, "w", n, "write")

pipewrite_stop(p) ==
  /\ pipe_at(p) = "write" /\ pipe_op[p].i < pipe_op[p].n
  /\ ~pipe.readopen \/ pipe_killed[p]
  /\ pipe_return(p, "none")

pipewrite_go(p) ==
  /\ pipe_at(p) = "write" /\ pipe_op[p].i < pipe_op[p].n
  /\ pipe.readopen /\ ~pipe_killed[p]
  /\ pipe_goto(p, "write_body")

pipewrite_full(p) ==
  /\ pipe_at(p) = "write_body" /\ pipe_full
  /\ pipe_op' = pipe_go(pipe_wakeup(pipe_op, "nread"), p, "nwrite")
  /\ pipe_lock' = Nobody
  /\ UNCHANGED <<pipe, pipe_killed, pipe_ends, pipe_got>>

pipewrite_byte(p) ==
  /\ pipe_at(p) = "write_body" /\ ~pipe_full
  /\ pipe' = [pipe EXCEPT !.data[pipe.nwrite % PIPESIZE] = p, !.nwrite = (@ + 1) % UINT]
  /\ pipe_op' = [pipe_op EXCEPT ![p].i = @ + 1, ![p].at = "write"]
  /\ UNCHANGED <<pipe_lock, pipe_killed, pipe_ends, pipe_got>>

(* All is written, or copyin fails.                                        *)
pipewrite_end(p) ==
  /\ \/ pipe_at(p) = "write" /\ pipe_op[p].i = pipe_op[p].n
     \/ pipe_at(p) = "write_body" /\ ~pipe_full
  /\ pipe_return(p, "nread")

-----------------------------------------------------------------------------
piperead_call(p, n) == pipe_call(p, "r", n, "read")

piperead_killed(p) ==
  /\ pipe_at(p) = "read" /\ pipe_empty /\ pipe.writeopen
  /\ pipe_killed[p]
  /\ pipe_return(p, "none")

piperead_wait(p) ==
  /\ pipe_at(p) = "read" /\ pipe_empty /\ pipe.writeopen
  /\ ~pipe_killed[p]
  /\ pipe_goto(p, "read_wait")

piperead_sleep(p) ==
  /\ pipe_at(p) = "read_wait"
  /\ pipe_op' = pipe_go(pipe_op, p, "nread")
  /\ pipe_lock' = Nobody
  /\ UNCHANGED <<pipe, pipe_killed, pipe_ends, pipe_got>>

piperead_start(p) ==
  /\ pipe_at(p) = "read" /\ ~(pipe_empty /\ pipe.writeopen)
  /\ pipe_goto(p, "copy")

(* Faulty variant: the byte is taken from the slot after the right one.    *)
Bug_read_next_slot(p) ==
  /\ pipe_at(p) = "copy" /\ pipe_op[p].i < pipe_op[p].n /\ ~pipe_empty
  /\ pipe_got' = pipe.data[(pipe.nread + 1) % PIPESIZE]
  /\ pipe' = [pipe EXCEPT !.nread = (@ + 1) % UINT]
  /\ pipe_op' = [pipe_op EXCEPT ![p].i = @ + 1]
  /\ UNCHANGED <<pipe_lock, pipe_killed, pipe_ends>>

piperead_byte(p) ==
  /\ pipe_at(p) = "copy" /\ pipe_op[p].i < pipe_op[p].n /\ ~pipe_empty
  /\ pipe_got' = pipe.data[pipe.nread % PIPESIZE]
  /\ pipe' = [pipe EXCEPT !.nread = (@ + 1) % UINT]
  /\ pipe_op' = [pipe_op EXCEPT ![p].i = @ + 1]
  /\ UNCHANGED <<pipe_lock, pipe_killed, pipe_ends>>

(* All is read, the pipe is empty, or copyout fails.                       *)
piperead_end(p) == pipe_at(p) = "copy" /\ pipe_return(p, "nwrite")

-----------------------------------------------------------------------------

(* The end of sleep: take pi->lock back, and test the condition again.     *)
pipe_woken(p) ==
  /\ pipe_at(p) \in {"nread_woken", "nwrite_woken"} /\ pipe_lock = Nobody
  /\ pipe_lock' = p
  /\ pipe_op' = pipe_go(pipe_op, p, IF pipe_at(p) = "nread_woken" THEN "read" ELSE "write")
  /\ UNCHANGED <<pipe, pipe_killed, pipe_ends, pipe_got>>

pipe_kkill(p) ==
  /\ pipe_killed' = [pipe_killed EXCEPT ![p] = TRUE]
  /\ pipe_op' = IF pipe_at(p) \in {"nread", "nwrite"} THEN pipe_go(pipe_op, p, pipe_at(p) \o "_woken")
                ELSE pipe_op
  /\ UNCHANGED <<pipe, pipe_lock, pipe_ends, pipe_got>>

closed_pipe(end) ==
  LET now == IF end = "w" THEN [pipe EXCEPT !.writeopen = FALSE]
             ELSE [pipe EXCEPT !.readopen = FALSE]
  IN [now EXCEPT !.allocated = now.readopen \/ now.writeopen]

last_end(p, end) == \A q \in PipeProc \ {p} : end \notin pipe_ends[q]

(* fileclose drops the last reference to an end: the whole of pipeclose is *)
(* one stretch under pi->lock.                                             *)
pipeclose(p, end) ==
  /\ pipe_at(p) = "user" /\ end \in pipe_ends[p] /\ last_end(p, end)
  /\ pipe_lock = Nobody
  /\ pipe' = closed_pipe(end)
  /\ pipe_op' = pipe_wakeup(pipe_op, IF end = "w" THEN "nread" ELSE "nwrite")
  /\ pipe_ends' = [pipe_ends EXCEPT ![p] = @ \ {end}]
  /\ UNCHANGED <<pipe_lock, pipe_killed, pipe_got>>

(* fileclose drops a reference that is not the last.                       *)
pipe_drop(p, end) ==
  /\ pipe_at(p) = "user" /\ end \in pipe_ends[p] /\ ~last_end(p, end)
  /\ pipe_ends' = [pipe_ends EXCEPT ![p] = @ \ {end}]
  /\ UNCHANGED <<pipe, pipe_lock, pipe_op, pipe_killed, pipe_got>>

(* The memory, once freed, may become another pipe, when kmem_cache_alloc  *)
(* succeeds (it cannot while pipe_cache is null, see FileTable); a failure *)
(* changes nothing here.                                                   *)
pipealloc ==
  /\ ~pipe.allocated
  /\ pipe' = new_pipe /\ pipe_ends' = PipeEnds
  /\ pipe_killed' = [p \in PipeProc |-> FALSE] /\ pipe_got' = Nobody
  /\ UNCHANGED <<pipe_lock, pipe_op>>

-----------------------------------------------------------------------------
pipe_step(p) ==
  \/ pipewrite_stop(p) \/ pipewrite_go(p) \/ pipewrite_full(p)
  \/ pipewrite_byte(p) \/ pipewrite_end(p)
  \/ piperead_killed(p) \/ piperead_wait(p) \/ piperead_sleep(p)
  \/ piperead_start(p) \/ piperead_byte(p) \/ piperead_end(p)

PipeNext ==
  \/ \E p \in PipeProc :
       \/ pipe_step(p) \/ pipe_woken(p)
       \/ p \in PipeVictims /\ pipe_kkill(p)
       \/ \E n \in PipeCounts : pipewrite_call(p, n) \/ piperead_call(p, n)
       \/ \E end \in {"r", "w"} : pipeclose(p, end) \/ pipe_drop(p, end)
  \/ pipealloc

PipeSpec == PipeInit /\ [][PipeNext]_pipeVars

-----------------------------------------------------------------------------
PipeTypeOK ==
  /\ pipe.data \in [0 .. PIPESIZE - 1 -> PipeProc \cup {Nobody}]
  /\ pipe.nread \in 0 .. UINT - 1 /\ pipe.nwrite \in 0 .. UINT - 1
  /\ {pipe.readopen, pipe.writeopen, pipe.allocated} \subseteq BOOLEAN
  /\ pipe_lock \in PipeProc \cup {Nobody}
  /\ pipe_op \in [PipeProc ->
       [at : {"user", "write", "write_body", "nwrite", "nwrite_woken",
              "read", "read_wait", "copy", "nread", "nread_woken"}, i : Nat, n : Nat]]
  /\ pipe_killed \in [PipeProc -> BOOLEAN]
  /\ pipe_ends \in [PipeProc -> SUBSET {"r", "w"}]
  /\ pipe_got \in PipeProc \cup {Nobody}

(* The bytes between nread and nwrite, nread modulo the width of a uint,   *)
(* are the queue of Fifo: nothing is lost, repeated or reordered, and the  *)
(* memory is given back once, when both ends are closed.                   *)
ring == [k \in 1 .. (pipe.nwrite + UINT - pipe.nread) % UINT |->
           pipe.data[(pipe.nread + k - 1) % PIPESIZE]]

Bytes == INSTANCE Fifo WITH Proc <- PipeProc, Capacity <- PIPESIZE,
           queue <- IF pipe.allocated THEN ring ELSE <<>>,
           alive <- pipe.allocated, got <- pipe_got

(* No lost wakeup: whenever pi->lock is free, a process asleep in piperead *)
(* has nothing to read and a writer to wait for, and one asleep in         *)
(* pipewrite has no room and a reader to wait for.  The one exception is a *)
(* killed writer: pipewrite then returns without the wakeup for the bytes  *)
(* it has already put in the ring.                                         *)
PipeSleepersMustWait ==
  pipe_lock = Nobody =>
    \A p \in PipeProc :
      /\ pipe_at(p) = "nwrite" => pipe_full /\ pipe.readopen
      /\ pipe_at(p) = "nread" =>
           /\ pipe.writeopen
           /\ pipe_empty \/ \E q \in PipeProc : pipe_killed[q] /\ "w" \in PipeEnds[q]

(* piperead returns 0 (end of file) only when every writer has closed: a   *)
(* reader that begins to copy finds a byte, or a closed write end, even if *)
(* another reader took the bytes it was woken for.                         *)
EofOnlyWhenClosed ==
  \A p \in PipeProc : pipe_at(p) = "copy" /\ pipe_op[p].i = 0 /\ pipe_op[p].n > 0
                        => ~pipe_empty \/ ~pipe.writeopen

(* Both: what a call finds when it goes on after a wait.                   *)
PipeWaitsExact == PipeSleepersMustWait /\ EofOnlyWhenClosed

=============================================================================
