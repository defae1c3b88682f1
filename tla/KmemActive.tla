------------------------------ MODULE KmemActive ------------------------------
(***************************************************************************)
(* Which allocator state a CPU works on (kernel/sysproc.c, kernel/proc.h). *)
(*                                                                         *)
(* buddy.c and slab.c work on curr_kmem(): the active_kmem of the CPU they *)
(* run on, or the kernel's state when that is null.  The allocator system  *)
(* calls set active_kmem to the calling process's own state (kmem_push)    *)
(* and put the old value back (kmem_pop).  System calls run with           *)
(* interrupts on, so a process may lose its CPU, and go on on another, at  *)
(* any point in between.                                                   *)
(***************************************************************************)
CONSTANTS Procs, CPUs,
          KERNEL,      \* the kernel's allocator state
          NULL

VARIABLES on,           \* the CPU a process runs on
          active_kmem,  \* by CPU
          pc, old,      \* where a process is, and what kmem_push returned
          inited,       \* ukmem_inited
          used          \* the last allocation: who, inside an allocator
                        \* call or not, and from which state

vars == <<on, active_kmem, pc, old, inited, used>>

curr_kmem(p) == active_kmem[on[p]]

Running(p, label) == on[p] # NULL /\ pc[p] = label

goto(p, label) == pc' = [pc EXCEPT ![p] = label]

allocate(p, inside) == used' = [proc |-> p, inside |-> inside, kmem |-> curr_kmem(p)]

kmem_push(p) ==
  /\ old' = [old EXCEPT ![p] = curr_kmem(p)]
  /\ active_kmem' = [active_kmem EXCEPT ![on[p]] = p]

kmem_pop(p) == active_kmem' = [active_kmem EXCEPT ![on[p]] = old[p]]

-----------------------------------------------------------------------------
Init ==
  /\ on = [p \in Procs |-> NULL]
  /\ active_kmem = [c \in CPUs |-> KERNEL]
  /\ pc = [p \in Procs |-> "user"] /\ old = [p \in Procs |-> KERNEL]
  /\ inited = [p \in Procs |-> FALSE]
  /\ used = NULL

schedule(p, c) ==
  /\ on[p] = NULL /\ \A q \in Procs : on[q] # c
  /\ on' = [on EXCEPT ![p] = c]
  /\ UNCHANGED <<active_kmem, pc, old, inited, used>>

yield(p) ==
  /\ on[p] # NULL
  /\ on' = [on EXCEPT ![p] = NULL]
  /\ UNCHANGED <<active_kmem, pc, old, inited, used>>

(* Any other system call that allocates: fork, exec, sbrk, pipe, open.     *)
kernel_alloc(p) ==
  /\ Running(p, "user")
  /\ allocate(p, FALSE)
  /\ UNCHANGED <<on, active_kmem, pc, old, inited>>

(* sys_kmem_init: the arena, then the process's state inside it.           *)
sys_kmem_init(p) ==
  /\ Running(p, "user") /\ ~inited[p]
  /\ allocate(p, FALSE)
  /\ goto(p, "init_push")
  /\ UNCHANGED <<on, active_kmem, old, inited>>

sys_kmem_init_push(p) ==
  /\ Running(p, "init_push")
  /\ kmem_push(p) /\ goto(p, "init_body")
  /\ UNCHANGED <<on, inited, used>>

sys_kmem_init_body(p) ==
  /\ Running(p, "init_body")
  /\ allocate(p, TRUE) /\ goto(p, "init_pop")
  /\ UNCHANGED <<on, active_kmem, old, inited>>

sys_kmem_init_return(p) ==
  /\ Running(p, "init_pop")
  /\ kmem_pop(p) /\ goto(p, "user")
  /\ inited' = [inited EXCEPT ![p] = TRUE]
  /\ UNCHANGED <<on, old, used>>

(* The other calls.  cache_create to kmalloc need an initialised state;    *)
(* all push before they check the rest of their arguments (kmalloc after). *)
Calls == {"cache_create", "cache_alloc", "cache_free", "cache_destroy", "cache_info", "kmalloc", "kfree"}

sys_call(p, call) ==
  /\ Running(p, "user") /\ (inited[p] \/ call = "kfree")
  /\ kmem_push(p) /\ goto(p, call)
  /\ UNCHANGED <<on, inited, used>>

sys_call_body(p) ==
  /\ \E call \in Calls : Running(p, call)
  /\ inited[p]
  /\ allocate(p, TRUE) /\ goto(p, "pop")
  /\ UNCHANGED <<on, active_kmem, old, inited>>

(* Arguments outside the window: these calls pop before they return.       *)
sys_call_refuse(p) ==
  /\ \E call \in {"cache_free", "cache_destroy", "cache_info", "kfree"} : Running(p, call)
  /\ goto(p, "pop")
  /\ UNCHANGED <<on, active_kmem, old, inited, used>>

(* An unreadable name, no page for its copy, no window: cache create and   *)
(* cache alloc return from here without kmem_pop.                          *)
sys_call_fail(p) ==
  /\ \E call \in {"cache_create", "cache_alloc"} : Running(p, call)
  /\ goto(p, "user")
  /\ UNCHANGED <<on, active_kmem, old, inited, used>>

sys_call_return(p) ==
  /\ Running(p, "pop")
  /\ kmem_pop(p) /\ goto(p, "user")
  /\ UNCHANGED <<on, old, inited, used>>

Next ==
  \E p \in Procs :
    \/ \E c \in CPUs : schedule(p, c)
    \/ yield(p) \/ kernel_alloc(p)
    \/ sys_kmem_init(p) \/ sys_kmem_init_push(p) \/ sys_kmem_init_body(p) \/ sys_kmem_init_return(p)
    \/ \E call \in Calls : sys_call(p, call)
    \/ sys_call_body(p) \/ sys_call_refuse(p) \/ sys_call_fail(p) \/ sys_call_return(p)

Spec == Init /\ [][Next]_vars

-----------------------------------------------------------------------------
(* A process's allocator state serves its own allocator calls and nothing  *)
(* else: every other allocation is the kernel's.                           *)
OwnCallsOnly ==
  used # NULL => used.kmem = IF used.inside THEN used.proc ELSE KERNEL

=============================================================================
