------------------------------- MODULE Clock -------------------------------
(***************************************************************************)
(* The clock: ticks, a uint that wraps, counted by clockintr (trap.c), and *)
(* sys_pause (sysproc.c), which sleeps until n ticks have passed.  A step  *)
(* is a stretch under tickslock, which a pause holds over two of them when *)
(* killed() says no and sleep follows.                                     *)
(***************************************************************************)
EXTENDS Naturals, Integers

CONSTANTS ClockProc,
          UINTT,          \* ticks counts modulo UINTT
          Pauses,         \* arguments of pause
          ClockVictims,   \* bound: the processes that are killed
          NoPauser

ASSUME ClockAssumption ==
  /\ UINTT \in Nat \ {0} /\ Pauses \subseteq Int /\ \A n \in Pauses : n < UINTT - 1
  /\ ClockVictims \subseteq ClockProc /\ NoPauser \notin ClockProc

VARIABLES ticks, tickslock_holder,
          pause_op,      \* each process: where it is, n, ticks0, and the
                         \* interrupts since its call, for the properties
          clock_killed   \* the processes that are killed

clockVars == <<ticks, tickslock_holder, pause_op, clock_killed>>

pause_idle == [at |-> "user", n |-> 0, ticks0 |-> 0, passed |-> 0]

ClockInit ==
  /\ ticks = 0 /\ tickslock_holder = NoPauser
  /\ pause_op = [p \in ClockProc |-> pause_idle] /\ clock_killed = {}

pause_at(p) == pause_op[p].at

(* ticks - ticks0 < n, in unsigned arithmetic.                             *)
too_early(p) == (ticks - pause_op[p].ticks0 + UINTT) % UINTT < pause_op[p].n

pause_goto(p, l, holder) ==
  /\ pause_op' = [pause_op EXCEPT ![p].at = l]
  /\ tickslock_holder' = holder
  /\ UNCHANGED <<ticks, clock_killed>>

-----------------------------------------------------------------------------
sys_pause(p, n) ==
  /\ pause_at(p) = "user" /\ p \notin clock_killed /\ tickslock_holder = NoPauser
  /\ tickslock_holder' = p
  /\ pause_op' = [pause_op EXCEPT ![p] =
       [at |-> "loop", n |-> IF n < 0 THEN 0 ELSE n, ticks0 |-> ticks, passed |-> 0]]
  /\ UNCHANGED <<ticks, clock_killed>>

pause_done(p) == pause_at(p) = "loop" /\ ~too_early(p) /\ pause_goto(p, "back", NoPauser)

pause_killed(p) ==
  /\ pause_at(p) = "loop" /\ too_early(p) /\ p \in clock_killed
  /\ pause_op' = [pause_op EXCEPT ![p] = pause_idle]
  /\ tickslock_holder' = NoPauser
  /\ UNCHANGED <<ticks, clock_killed>>

pause_wait(p) ==
  /\ pause_at(p) = "loop" /\ too_early(p) /\ p \notin clock_killed
  /\ pause_goto(p, "sleep", p)

pause_sleep(p) == pause_at(p) = "sleep" /\ pause_goto(p, "asleep", NoPauser)

pause_woken(p) ==
  /\ pause_at(p) = "woken" /\ tickslock_holder = NoPauser
  /\ pause_goto(p, "loop", p)

pause_return(p) ==
  /\ pause_at(p) = "back"
  /\ pause_op' = [pause_op EXCEPT ![p] = pause_idle]
  /\ UNCHANGED <<ticks, tickslock_holder, clock_killed>>

(* The bound: no process is kept from running until ticks has come round.  *)
tick ==
  /\ tickslock_holder = NoPauser
  /\ \A p \in ClockProc : pause_op[p].passed < UINTT - 1
  /\ ticks' = (ticks + 1) % UINTT
  /\ pause_op' = [p \in ClockProc |->
       [pause_op[p] EXCEPT !.at = IF @ = "asleep" THEN "woken" ELSE @,
                           !.passed = IF pause_at(p) \in {"user", "back"} THEN @ ELSE @ + 1]]
  /\ UNCHANGED <<tickslock_holder, clock_killed>>

pause_kkill(p) ==
  /\ p \in ClockVictims
  /\ clock_killed' = clock_killed \cup {p}
  /\ pause_op' = [pause_op EXCEPT ![p].at = IF @ = "asleep" THEN "woken" ELSE @]
  /\ UNCHANGED <<ticks, tickslock_holder>>

ClockNext ==
  \/ \E p \in ClockProc :
       \/ \E n \in Pauses : sys_pause(p, n)
       \/ pause_done(p) \/ pause_killed(p) \/ pause_wait(p) \/ pause_sleep(p)
       \/ pause_woken(p) \/ pause_return(p) \/ pause_kkill(p)
  \/ tick

ClockSpec == ClockInit /\ [][ClockNext]_clockVars

-----------------------------------------------------------------------------
ClockTypeOK ==
  /\ ticks \in 0 .. UINTT - 1 /\ tickslock_holder \in ClockProc \cup {NoPauser}
  /\ pause_op \in [ClockProc ->
       [at : {"user", "loop", "sleep", "asleep", "woken", "back"}, n : Nat,
        ticks0 : 0 .. UINTT - 1, passed : 0 .. UINTT - 1]]
  /\ clock_killed \subseteq ClockVictims

(* A pause of n returns after n interrupts or more, also when ticks wraps  *)
(* meanwhile; and a process is asleep only while fewer than n have come.   *)
PausesExact ==
  \A p \in ClockProc :
    /\ pause_at(p) = "back" => pause_op[p].passed >= pause_op[p].n
    /\ pause_at(p) = "asleep" => pause_op[p].passed < pause_op[p].n

=============================================================================
