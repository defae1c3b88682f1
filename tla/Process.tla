------------------------------ MODULE Process ------------------------------
(***************************************************************************)
(* Processes (kernel/proc.c): fork, exit, wait, kill, sleep and wakeup,    *)
(* and the scheduler, with the pages a process holds.                      *)
(*                                                                         *)
(* A process moves while it is RUNNING; a step is a stretch under its      *)
(* p->lock, under another's, or between two of them under wait_lock, which *)
(* is held over several steps.  The timer may take the CPU from a process  *)
(* between any two steps, unless it holds wait_lock.  The files and the    *)
(* directory of a process are in FileTable and Inode.                      *)
(***************************************************************************)
EXTENDS Naturals, FiniteSets, FiniteSetsExt

CONSTANTS NPROC, NCPU,
          MemoryPages,    \* the pages the system starts with
          MaxPid,         \* bound: no fork after this pid
          ProcVictims,    \* bound: the processes kill is called for
          None

Slot == 1 .. NPROC
initproc == 1

ASSUME ProcessAssumption ==
  /\ NPROC \in Nat \ {0} /\ NCPU \in Nat \ {0} /\ MaxPid \in Nat
  /\ ProcVictims \subseteq Slot \ {initproc}
  /\ MemoryPages \in Nat /\ MemoryPages >= 4
  /\ None \notin Nat

VARIABLES proc,          \* the process table
          nextpid, wait_lock,
          free_pages,
          kernel_fault   \* the kernel has stopped on a bad address

procVars == <<proc, nextpid, wait_lock, free_pages, kernel_fault>>

(* The pages of a process: its trapframe, its page table, its user memory  *)
(* (one page stands for all of it) and its kmem_state; and the arena that  *)
(* sys_kmem_init adds.                                                     *)
ProcPages == {"trapframe", "pagetable", "user", "ukmem"}

unused == [state |-> "UNUSED", pid |-> 0, parent |-> None, killed |-> FALSE,
           chan |-> None, at |-> "user", spins |-> FALSE, child |-> None, pages |-> {}]

(* userinit: the first process.                                            *)
ProcessInit ==
  /\ proc = [p \in Slot |-> IF p = initproc
       THEN [unused EXCEPT !.state = "RUNNABLE", !.pid = 1, !.pages = ProcPages] ELSE unused]
  /\ nextpid = 2 /\ wait_lock = None
  /\ free_pages = MemoryPages - 4 /\ kernel_fault = FALSE

least(S) == CHOOSE p \in S : \A q \in S : p <= q

children(p) == {q \in Slot : proc[q].parent = p}
killed(p) == proc[p].killed
runs(p, l)  == proc[p].state = "RUNNING" /\ proc[p].at = l /\ ~kernel_fault
memory      == <<free_pages, kernel_fault>>

(* acquire(&wait_lock): with interrupts off, p spins until it is free.     *)
spin(p, l) ==
  /\ runs(p, l) /\ ~proc[p].spins
  /\ proc' = [proc EXCEPT ![p].spins = TRUE]
  /\ UNCHANGED <<nextpid, wait_lock, memory>>

gets_lock(p, l) == runs(p, l) /\ proc[p].spins /\ wait_lock = None

(* wakeup of the processes that sleep on one of the channels cs.           *)
proc_wakeup(f, cs) ==
  [q \in Slot |-> IF f[q].state = "SLEEPING" /\ f[q].chan \in cs
                  THEN [f[q] EXCEPT !.state = "RUNNABLE"] ELSE f[q]]

-----------------------------------------------------------------------------
(* kfork up to release(&np->lock): allocproc and uvmcopy.                  *)
can_fork(p) ==
  /\ runs(p, "user") /\ ~killed(p) /\ nextpid <= MaxPid
  /\ \E q \in Slot : proc[q].state = "UNUSED"

allocproc(p) ==
  /\ can_fork(p) /\ free_pages >= 4
  /\ LET np == least({q \in Slot : proc[q].state = "UNUSED"})
     IN proc' = [proc EXCEPT ![np].state = "USED", ![np].pid = nextpid, ![np].pages = ProcPages,
                             ![p].at = "fork_parent", ![p].child = np]
  /\ nextpid' = nextpid + 1 /\ free_pages' = free_pages - 4
  /\ UNCHANGED <<wait_lock, kernel_fault>>

(* No page for the trapframe, the page table or uvmcopy: freeproc gives    *)
(* back what there is, and fork returns -1.  The pid is used up.           *)
allocproc_no_memory(p) ==
  /\ can_fork(p) /\ free_pages \in {0, 1, 3}
  /\ nextpid' = nextpid + 1
  /\ UNCHANGED <<proc, wait_lock, memory>>

(* No page for ukmem: memset writes to address 0, and the kernel stops.    *)
allocproc_fault(p) ==
  /\ can_fork(p) /\ free_pages = 2
  /\ kernel_fault' = TRUE
  /\ UNCHANGED <<proc, nextpid, wait_lock, free_pages>>

stopped == kernel_fault /\ UNCHANGED procVars

kfork_parent(p) ==
  /\ gets_lock(p, "fork_parent")
  /\ proc' = [proc EXCEPT ![proc[p].child].parent = p, ![p].at = "fork_run", ![p].spins = FALSE]
  /\ UNCHANGED <<nextpid, wait_lock, memory>>

kfork_run(p) ==
  /\ runs(p, "fork_run")
  /\ proc' = [proc EXCEPT ![proc[p].child].state = "RUNNABLE",
                          ![p].at = "user", ![p].child = None]
  /\ UNCHANGED <<nextpid, wait_lock, memory>>

(* sys_kmem_init: an arena from the kernel's heap (see KmemActive).        *)
kmem_arena(p) ==
  /\ runs(p, "user") /\ ~killed(p) /\ "arena" \notin proc[p].pages /\ free_pages > 0
  /\ proc' = [proc EXCEPT ![p].pages = @ \cup {"arena"}]
  /\ free_pages' = free_pages - 1
  /\ UNCHANGED <<nextpid, wait_lock, kernel_fault>>

-----------------------------------------------------------------------------

reparent(f, p) ==
  [q \in Slot |-> IF f[q].parent = p THEN [f[q] EXCEPT !.parent = initproc] ELSE f[q]]

(* Faulty variant: init is not woken for the children it is given.         *)
Bug_exit_no_init_wakeup(p) ==
  /\ gets_lock(p, "exit_lock")
  /\ wait_lock' = p
  /\ proc' = [proc_wakeup(reparent(proc, p), {proc[p].parent}) EXCEPT ![p].at = "exit", ![p].spins = FALSE]
  /\ UNCHANGED <<nextpid, memory>>

(* kexit, by sys_exit or because usertrap finds p killed ...               *)
kexit(p) ==
  /\ runs(p, "user") /\ p # initproc
  /\ proc' = [proc EXCEPT ![p].at = "exit_lock"]
  /\ UNCHANGED <<nextpid, wait_lock, memory>>

(* ... takes wait_lock,                                                    *)
(* hand the children to init, wake init if there are any, and the parent.  *)
kexit_reparent(p) ==
  /\ gets_lock(p, "exit_lock")
  /\ wait_lock' = p
  /\ proc' = [proc_wakeup(reparent(proc, p),
                {proc[p].parent} \cup (IF children(p) = {} THEN {} ELSE {initproc}))
                EXCEPT ![p].at = "exit", ![p].spins = FALSE]
  /\ UNCHANGED <<nextpid, memory>>

kexit_zombie(p) ==
  /\ runs(p, "exit")
  /\ proc' = [proc EXCEPT ![p].state = "ZOMBIE"]
  /\ wait_lock' = None
  /\ UNCHANGED <<nextpid, memory>>

-----------------------------------------------------------------------------
kwait(p) ==
  /\ runs(p, "user") /\ ~killed(p)
  /\ proc' = [proc EXCEPT ![p].at = "wait_lock"]
  /\ UNCHANGED <<nextpid, wait_lock, memory>>

(* At the start, or at the end of sleep.                                   *)
kwait_lock(p) ==
  /\ gets_lock(p, "wait_lock")
  /\ wait_lock' = p
  /\ proc' = [proc EXCEPT ![p].at = "wait", ![p].chan = None, ![p].spins = FALSE]
  /\ UNCHANGED <<nextpid, memory>>

zombies(p) == {q \in children(p) : proc[q].state = "ZOMBIE"}

(* freeproc gives back everything but the arena.                           *)
freeproc(q) == free_pages' = free_pages + Cardinality(proc[q].pages \ {"arena"})

kwait_reap(p) ==
  /\ runs(p, "wait") /\ zombies(p) # {}
  /\ LET q == least(zombies(p)) IN
       /\ proc' = [proc EXCEPT ![q] = unused, ![p].at = "user"]
       /\ freeproc(q)
  /\ wait_lock' = None
  /\ UNCHANGED <<nextpid, kernel_fault>>

(* copyout of the status fails, or there is nothing to wait for.           *)
kwait_fail(p) ==
  /\ runs(p, "wait") /\ (zombies(p) # {} \/ children(p) = {} \/ killed(p))
  /\ proc' = [proc EXCEPT ![p].at = "user"]
  /\ wait_lock' = None
  /\ UNCHANGED <<nextpid, memory>>

(* The scan is over and p was not killed: it will sleep.                   *)
kwait_wait(p) ==
  /\ runs(p, "wait") /\ zombies(p) = {} /\ children(p) # {} /\ ~killed(p)
  /\ proc' = [proc EXCEPT ![p].at = "wait_sleep"]
  /\ UNCHANGED <<nextpid, wait_lock, memory>>

(* sleep(p, &wait_lock): under p->lock, wait_lock is released.             *)
kwait_sleep(p) ==
  /\ runs(p, "wait_sleep")
  /\ proc' = [proc EXCEPT ![p].state = "SLEEPING", ![p].chan = p, ![p].at = "wait_lock"]
  /\ wait_lock' = None
  /\ UNCHANGED <<nextpid, memory>>

-----------------------------------------------------------------------------
(* kkill of the process q, called by p.                                    *)
kkill(p, q) ==
  /\ runs(p, "user") /\ ~killed(p) /\ proc[q].pid # 0 /\ q \in ProcVictims
  /\ proc' = [proc EXCEPT ![q].killed = TRUE,
                          ![q].state = IF @ = "SLEEPING" THEN "RUNNABLE" ELSE @]
  /\ UNCHANGED <<nextpid, wait_lock, memory>>

running == {p \in Slot : proc[p].state = "RUNNING"}

scheduler(p) ==
  /\ proc[p].state = "RUNNABLE" /\ Cardinality(running) < NCPU /\ ~kernel_fault
  /\ proc' = [proc EXCEPT ![p].state = "RUNNING"]
  /\ UNCHANGED <<nextpid, wait_lock, memory>>

(* The timer interrupt; interrupts are off while p holds a spinlock or     *)
(* spins for one.                                                          *)
yield(p) ==
  /\ proc[p].state = "RUNNING" /\ wait_lock # p /\ ~proc[p].spins /\ ~kernel_fault
  /\ proc' = [proc EXCEPT ![p].state = "RUNNABLE"]
  /\ UNCHANGED <<nextpid, wait_lock, memory>>

proc_step(p) ==
  \/ kfork_run(p) \/ kexit_zombie(p)
  \/ kwait_reap(p) \/ kwait_fail(p) \/ kwait_wait(p) \/ kwait_sleep(p)
  \/ \E l \in {"fork_parent", "exit_lock", "wait_lock"} : spin(p, l)

proc_lock(p) == kfork_parent(p) \/ kexit_reparent(p) \/ kwait_lock(p)

ProcessNext ==
  \/ \E p \in Slot :
       \/ allocproc(p) \/ allocproc_no_memory(p) \/ allocproc_fault(p) \/ kmem_arena(p)
       \/ kexit(p) \/ kwait(p) \/ proc_step(p) \/ proc_lock(p)
       \/ scheduler(p) \/ yield(p)
       \/ \E q \in Slot : kkill(p, q)
  \/ stopped

ProcessSpec == ProcessInit /\ [][ProcessNext]_procVars

-----------------------------------------------------------------------------
ProcessTypeOK ==
  /\ proc \in [Slot ->
       [state : {"UNUSED", "USED", "SLEEPING", "RUNNABLE", "RUNNING", "ZOMBIE"},
        pid : 0 .. MaxPid, parent : Slot \cup {None}, killed : BOOLEAN,
        chan : Slot \cup {None}, child : Slot \cup {None},
        at : {"user", "fork_parent", "fork_run", "exit_lock", "exit", "wait_lock", "wait", "wait_sleep"},
        spins : BOOLEAN,
        pages : SUBSET (ProcPages \cup {"arena"})]]
  /\ nextpid \in 2 .. MaxPid + 1 /\ wait_lock \in Slot \cup {None}
  /\ free_pages \in Nat /\ kernel_fault \in BOOLEAN

(* Every process but init and the one being forked has a parent that can   *)
(* still wait for it: none is handed to a process that has exited or to a  *)
(* slot that is free, however exit, fork and wait interleave.              *)
ParentsAlive ==
  \A q \in Slot \ {initproc} :
    proc[q].state # "UNUSED" =>
      IF proc[q].parent = None THEN proc[q].state = "USED"
      ELSE proc[proc[q].parent].state \notin {"UNUSED", "USED", "ZOMBIE"}

(* No lost wakeup: whenever wait_lock is free, a process asleep in wait    *)
(* has a child and none of its children has exited.                        *)
WaitersMustWait ==
  wait_lock = None =>
    \A p \in Slot : proc[p].state = "SLEEPING" => children(p) # {} /\ zombies(p) = {}

(* Both: the tree of processes and those who wait on it.                   *)
ProcessTreeExact == ParentsAlive /\ WaitersMustWait

(* What the comment on freeproc says, "free a proc structure and the data  *)
(* hanging from it, including user pages": every page is free or belongs   *)
(* to a process.                                                           *)
PagesReturned ==
  free_pages + MapThenSumSet(LAMBDA p : Cardinality(proc[p].pages), Slot) = MemoryPages

=============================================================================
