------------------------------ MODULE Spinlock ------------------------------
(***************************************************************************)
(* Spinlocks (kernel/spinlock.c) with interrupts and context switches      *)
(* (kernel/trap.c, and scheduler, sched, yield and sleep of proc.c).       *)
(*                                                                         *)
(* A context - the kernel thread of a process, or the scheduler of a CPU - *)
(* is the sequence of instructions it has still to run; an interrupt puts  *)
(* those of its handler in front.  Lock 0 is tickslock, which system calls *)
(* and the clock interrupt share, and lock t is the p->lock of process t.  *)
(***************************************************************************)
EXTENDS Naturals, Sequences, FiniteSets, SequencesExt

CONSTANTS NTHREAD,         \* processes
          Cpu, BootCpu,    \* CPUs, and the one with cpuid() 0
          NoThread, NoCpu

ASSUME SpinlockAssumption ==
  /\ NTHREAD \in Nat \ {0} /\ BootCpu \in Cpu
  /\ NoThread \notin Nat /\ NoCpu \notin Cpu /\ Cpu \cap Nat = {}

VARIABLES lk,           \* each lock: locked, and lk->cpu
          cpu,          \* each CPU: noff, intena, c->proc, and interrupts on or off
          ctx,          \* each context: the instructions it has still to run
          thread,       \* p->state
          spin_panic    \* a panic of spinlock.c or sched was reached

spinVars == <<lk, cpu, ctx, thread, spin_panic>>

Thread == 1 .. NTHREAD
Lock   == 0 .. NTHREAD
tickslock == 0

acquire(l) == << <<"push_off", l>>, <<"swap", l>>, <<"own", l>> >>
release(l) == << <<"disown", l>>, <<"unlock", l>>, <<"pop_off", l>> >>
yield_code(t) == acquire(t) \o << <<"sched", "RUNNABLE">> >> \o release(t)

(* Faulty variant: the condition's lock is released before p->lock is held. *)
Bug_sleep_release_first(t) ==
  release(tickslock) \o acquire(t) \o << <<"sched", "SLEEPING">> >>
  \o release(t) \o acquire(tickslock)

sleep(t) ==
  acquire(t) \o release(tickslock) \o << <<"sched", "SLEEPING">> >>
  \o release(t) \o acquire(tickslock)

each(t, Code(_)) == FlattenSeq([u \in Thread |-> IF u = t THEN <<>> ELSE Code(u)])
wakeup(t) == each(t, LAMBDA u : acquire(u) \o << <<"wake", u>> >> \o release(u))
scheduler_code == << <<"intr_on", 0>>, <<"intr_off", 0>> >>
                  \o each(0, LAMBDA u : acquire(u) \o << <<"run", u>> >> \o release(u))

(* What system calls do: uptime takes tickslock, pause sleeps on it.       *)
uptime   == acquire(tickslock) \o release(tickslock)
pause(t) == acquire(tickslock) \o sleep(t) \o release(tickslock)

(* kerneltrap, or usertrap, for the timer interrupt on CPU c with process  *)
(* t (or NoThread): clockintr, yield, and the return that turns interrupts *)
(* on again.                                                               *)
clockintr(c, t) ==
  IF c = BootCpu THEN acquire(tickslock) \o wakeup(t) \o release(tickslock) ELSE <<>>
kerneltrap(c, t) ==
  clockintr(c, t) \o (IF t = NoThread THEN <<>> ELSE yield_code(t)) \o << <<"sret", 0>> >>

(* Processes begin in forkret, as the scheduler has left them.             *)
forkret(t) == release(t) \o << <<"sret", 0>> >>

SpinlockInit ==
  /\ lk = [l \in Lock |-> [locked |-> FALSE, cpu |-> NoCpu]]
  /\ cpu = [c \in Cpu |-> [noff |-> 0, intena |-> FALSE, intr |-> FALSE, proc |-> NoThread]]
  /\ ctx = [k \in Thread \cup Cpu |-> IF k \in Cpu THEN <<>> ELSE forkret(k)]
  /\ thread = [t \in Thread |-> "RUNNABLE"]
  /\ spin_panic = FALSE

-----------------------------------------------------------------------------
myproc(c)     == cpu[c].proc
on(c)         == IF myproc(c) = NoThread THEN c ELSE myproc(c)
holding(c, l) == lk[l].locked /\ lk[l].cpu = c

next(c, op) == ctx[on(c)] # <<>> /\ Head(ctx[on(c)])[1] = op
arg(c)      == Head(ctx[on(c)])[2]
advance(c)  == ctx' = [ctx EXCEPT ![on(c)] = Tail(@)]
check(ok)   == spin_panic' = (spin_panic \/ ~ok)

push_off(c) ==
  /\ next(c, "push_off")
  /\ cpu' = [cpu EXCEPT ![c].intr = FALSE, ![c].noff = @ + 1,
                        ![c].intena = IF cpu[c].noff = 0 THEN cpu[c].intr ELSE @]
  /\ check(~holding(c, arg(c))) /\ advance(c)
  /\ UNCHANGED <<lk, thread>>

(* The atomic swap: a CPU spins, interrupts off, while the lock is held.   *)
swap(c) ==
  /\ next(c, "swap") /\ ~lk[arg(c)].locked
  /\ lk' = [lk EXCEPT ![arg(c)].locked = TRUE]
  /\ advance(c)
  /\ UNCHANGED <<cpu, thread, spin_panic>>

own(c) ==
  /\ next(c, "own")
  /\ lk' = [lk EXCEPT ![arg(c)].cpu = c]
  /\ advance(c)
  /\ UNCHANGED <<cpu, thread, spin_panic>>

disown(c) ==
  /\ next(c, "disown")
  /\ lk' = [lk EXCEPT ![arg(c)].cpu = NoCpu]
  /\ check(holding(c, arg(c))) /\ advance(c)
  /\ UNCHANGED <<cpu, thread>>

unlock(c) ==
  /\ next(c, "unlock")
  /\ lk' = [lk EXCEPT ![arg(c)].locked = FALSE]
  /\ advance(c)
  /\ UNCHANGED <<cpu, thread, spin_panic>>

pop_off(c) ==
  /\ next(c, "pop_off")
  /\ cpu' = [cpu EXCEPT ![c].noff = IF @ = 0 THEN 0 ELSE @ - 1,
                        ![c].intr = @ \/ (cpu[c].noff = 1 /\ cpu[c].intena)]
  /\ check(~cpu[c].intr /\ cpu[c].noff >= 1) /\ advance(c)
  /\ UNCHANGED <<lk, thread>>

-----------------------------------------------------------------------------
(* sched, up to swtch: p->lock is held, it is the only one, and interrupts *)
(* are off.  The process will go on, maybe on another CPU, by setting      *)
(* intena there to what it was here; the scheduler goes on after its own   *)
(* swtch.                                                                  *)
sched_checks(c) == holding(c, myproc(c)) /\ cpu[c].noff = 1 /\ ~cpu[c].intr

sched(c) ==
  /\ next(c, "sched")
  /\ check(sched_checks(c))
  /\ thread' = [thread EXCEPT ![myproc(c)] = arg(c)]
  /\ ctx' = [ctx EXCEPT ![myproc(c)] = << <<"intena", cpu[c].intena>> >> \o Tail(@)]
  /\ cpu' = [cpu EXCEPT ![c].proc = NoThread]
  /\ UNCHANGED lk

sched_intena(c) ==
  /\ next(c, "intena")
  /\ cpu' = [cpu EXCEPT ![c].intena = arg(c)]
  /\ advance(c)
  /\ UNCHANGED <<lk, thread, spin_panic>>

(* The scheduler with p->lock: the process runs if it can.                 *)
scheduler_run(c) ==
  /\ next(c, "run")
  /\ advance(c)
  /\ IF thread[arg(c)] = "RUNNABLE"
     THEN /\ thread' = [thread EXCEPT ![arg(c)] = "RUNNING"]
          /\ cpu' = [cpu EXCEPT ![c].proc = arg(c)]
     ELSE UNCHANGED <<thread, cpu>>
  /\ UNCHANGED <<lk, spin_panic>>

wakeup_one(c) ==
  /\ next(c, "wake")
  /\ thread' = [thread EXCEPT ![arg(c)] = IF @ = "SLEEPING" THEN "RUNNABLE" ELSE @]
  /\ advance(c)
  /\ UNCHANGED <<lk, cpu, spin_panic>>

(* intr_on, intr_off, and the sret at the end of a trap.                   *)
intr_set(c) ==
  /\ \E op \in {"intr_on", "intr_off", "sret"} :
       next(c, op) /\ cpu' = [cpu EXCEPT ![c].intr = (op # "intr_off")]
  /\ advance(c)
  /\ UNCHANGED <<lk, thread, spin_panic>>

-----------------------------------------------------------------------------
interrupt(c) ==
  /\ cpu[c].intr
  /\ cpu' = [cpu EXCEPT ![c].intr = FALSE]
  /\ ctx' = [ctx EXCEPT ![on(c)] = kerneltrap(c, myproc(c)) \o @]
  /\ UNCHANGED <<lk, thread, spin_panic>>

(* A process makes a system call; a scheduler begins another pass.         *)
begin(c) ==
  /\ ctx[on(c)] = <<>>
  /\ \E code \in IF on(c) = c THEN {scheduler_code} ELSE {uptime, pause(on(c))} :
       ctx' = [ctx EXCEPT ![on(c)] = code]
  /\ UNCHANGED <<lk, cpu, thread, spin_panic>>

spin_step(c) ==
  \/ push_off(c) \/ swap(c) \/ own(c) \/ disown(c) \/ unlock(c) \/ pop_off(c)
  \/ sched(c) \/ sched_intena(c) \/ scheduler_run(c) \/ wakeup_one(c) \/ intr_set(c)

SpinlockNext == \E c \in Cpu : spin_step(c) \/ interrupt(c) \/ begin(c)

SpinlockSpec == SpinlockInit /\ [][SpinlockNext]_spinVars

-----------------------------------------------------------------------------
SpinlockTypeOK ==
  /\ lk \in [Lock -> [locked : BOOLEAN, cpu : Cpu \cup {NoCpu}]]
  /\ cpu \in [Cpu -> [noff : 0 .. NTHREAD + 1, intena : BOOLEAN, intr : BOOLEAN,
                      proc : Thread \cup {NoThread}]]
  /\ thread \in [Thread -> {"RUNNABLE", "RUNNING", "SLEEPING"}]
  /\ spin_panic \in BOOLEAN

(* The context running on c holds l: it is past the swap, and the store    *)
(* that frees the lock is still to come.                                   *)
holds(c, l) ==
  LET code == ctx[on(c)]
  IN \E i \in DOMAIN code :
       code[i] = <<"unlock", l>> /\ \A j \in 1 .. i - 1 : code[j] # <<"swap", l>>

(* Mutual exclusion, although the scheduler takes a p->lock that the       *)
(* process it starts will release, and the process that stops takes one    *)
(* that the scheduler will.                                                *)
OneHolder ==
  \A l \in Lock : Cardinality({c \in Cpu : holds(c, l)}) = (IF lk[l].locked THEN 1 ELSE 0)

(* No CPU is interrupted while it holds a lock, so that a handler never    *)
(* spins for a lock its own CPU holds.                                     *)
NoInterruptInside == \A c \in Cpu : cpu[c].intr => cpu[c].noff = 0 /\ \A l \in Lock : ~holds(c, l)

(* sched's comment: intena "is a property of this kernel thread, not this  *)
(* CPU".  A process that is back from its locks has interrupts on, on      *)
(* whatever CPU it went to sleep and on whatever CPU it woke up.           *)
InterruptsBack ==
  \A c \in Cpu : myproc(c) # NoThread /\ ctx[on(c)] = <<>> => cpu[c].intr /\ cpu[c].noff = 0

(* A process runs on one CPU at most.                                      *)
OneCpuEach ==
  \A c, d \in Cpu : c # d /\ myproc(c) # NoThread => myproc(c) # myproc(d)

(* sleep's comment: "we won't miss any wakeup".  A process that has tested *)
(* its condition under tickslock and not yet gone to sleep.                *)
about_to_sleep(t) ==
  \E i \in DOMAIN ctx[t] :
    ctx[t][i] = <<"sched", "SLEEPING">> /\ \A j \in 1 .. i - 1 : ctx[t][j] # <<"swap", tickslock>>

(* wakeup passes over no such process.                                     *)
WakeupNotMissed == \A c \in Cpu : next(c, "wake") => ~about_to_sleep(arg(c))

(* All of that, and none of the panics of acquire, release, pop_off and    *)
(* sched.                                                                  *)
LocksExact ==
  OneHolder /\ NoInterruptInside /\ InterruptsBack /\ OneCpuEach /\ WakeupNotMissed /\ ~spin_panic

=============================================================================
