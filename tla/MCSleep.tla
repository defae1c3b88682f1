------------------------------ MODULE MCSleep ------------------------------
(* Users of sleep and wakeup - pipes, the console, the disk, the clock and *)
(* parents that wait for their children - and the spinlocks below them.    *)
(* They share no state, so a behaviour is one of a single component, the   *)
(* others staying as they are at first.                                    *)
(* Input and output of the console are explored apart: they meet in the    *)
(* interrupt handler, which is part of both.                               *)
EXTENDS Pipe, Console, VirtioDisk, Clock, Process, Spinlock, TLC

CONSTANTS w, x, r

(* A writer, a reader, and a process that holds both ends.                 *)
MCPipeEnds == (w :> {"w"}) @@ (x :> {"r", "w"}) @@ (r :> {"r"})

(* One pause of no length, asked for with a negative number.               *)
MCPauses == {-1, 3}

VARIABLE which

sleepVars == <<which, pipeVars, conVars, diskVars, clockVars, procVars, spinVars>>

MCInit ==
  /\ PipeInit /\ ConsoleInit /\ VirtioInit /\ ClockInit /\ ProcessInit /\ SpinlockInit
  /\ which \in {"pipe", "input", "output", "disk", "clock", "processes", "locks"}

MCNext ==
  \/ which = "pipe" /\ PipeNext /\ UNCHANGED <<which, conVars, diskVars, clockVars, procVars, spinVars>>
  \/ which = "input" /\ (console_input \/ uart_sent \/ uart_handler)
                     /\ UNCHANGED <<which, pipeVars, diskVars, clockVars, procVars, spinVars>>
  \/ which = "output" /\ (console_output \/ uart_sent \/ uart_handler \/ \E c \in ConChar : uart_received(c))
                      /\ UNCHANGED <<which, pipeVars, diskVars, clockVars, procVars, spinVars>>
  \/ which = "disk" /\ VirtioNext /\ UNCHANGED <<which, pipeVars, conVars, clockVars, procVars, spinVars>>
  \/ which = "clock" /\ ClockNext /\ UNCHANGED <<which, pipeVars, conVars, diskVars, procVars, spinVars>>
  \/ which = "processes" /\ ProcessNext /\ UNCHANGED <<which, pipeVars, conVars, diskVars, clockVars, spinVars>>
  \/ which = "locks" /\ SpinlockNext /\ UNCHANGED <<which, pipeVars, conVars, diskVars, clockVars, procVars>>

(* The device carries out what it is given, and interrupts are taken.      *)
(* Nothing is assumed of the processes: one that wakes another may have    *)
(* taken the descriptors again before that one runs.                       *)
VirtioFairness ==
  /\ WF_diskVars(which = "disk" /\ device_take) /\ WF_diskVars(which = "disk" /\ intr_step)
  /\ \A p \in DiskProc :
       WF_diskVars(which = "disk" /\ \E i \in Desc : vd.b[i] = p /\ device_done(i))

MCSpec == MCInit /\ [][MCNext]_sleepVars /\ VirtioFairness

SleepTypeOK ==
  /\ which = "pipe" => PipeTypeOK
  /\ which \in {"input", "output"} => ConsoleTypeOK
  /\ which = "disk" => VirtioTypeOK
  /\ which = "clock" => ClockTypeOK
  /\ which = "processes" => ProcessTypeOK
  /\ which = "locks" => SpinlockTypeOK

(* No lost wakeup, in pipes, at the console, in the disk driver and at the *)
(* clock: a process is asleep only while what it waits for has not come,   *)
(* and goes on only when it has.                                           *)
WaitsExact ==
  /\ which = "pipe" => PipeWaitsExact
  /\ which \in {"input", "output"} => ConsoleWaitsExact
  /\ which = "disk" => DiskWaitsExact
  /\ which = "clock" => PausesExact

(* A pipe implements Fifo (Bytes is the mapping): nothing is lost,         *)
(* repeated or reordered between pipewrite and piperead, and the memory is *)
(* given back once, when both ends are closed.                             *)
PipeIsFifo ==
  /\ Bytes!FifoInit
  /\ [][which = "pipe" => UNCHANGED Bytes!fifoVars \/ Bytes!FifoNext]_sleepVars

(* The console implements LineDiscipline (Lines is the mapping): readers   *)
(* get what was typed, as it was edited, in order and once.                *)
ConsoleIsLineDiscipline ==
  /\ Lines!LineInit
  /\ [][which = "input" => UNCHANGED Lines!lineVars \/ Lines!LineNext]_sleepVars

(* Every request that is given to the disk is carried out and reported to  *)
(* the process that made it, whatever the other processes do; shown for    *)
(* one process, the others are alike.                                      *)
RequestsFinish == RequestFinishes(CHOOSE p \in DiskProc : TRUE)

=============================================================================
