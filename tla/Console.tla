------------------------------ MODULE Console ------------------------------
(***************************************************************************)
(* The console (kernel/console.c) and the serial line under it             *)
(* (kernel/uart.c): the input buffer with its three indices, readers that  *)
(* wait for a line, writers that wait for the transmitter, and the         *)
(* interrupt handler that serves both.                                     *)
(*                                                                         *)
(* The UART is external: it sends what is written to THR, receives         *)
(* characters, and raises an interrupt when it has nothing left to send or *)
(* a character has come in.  A step is a stretch under cons.lock or        *)
(* tx_lock, but looking at the line status and then writing THR are two    *)
(* steps; the echo of a character is a single one.                         *)
(***************************************************************************)
EXTENDS Integers, Sequences

CONSTANTS ConReader, ConWriter,
          INPUT_BUF_SIZE,
          UINTC,          \* the modulus of r, w and e, 2^32 in the code
          ConChar,        \* what is typed, of "x", "newline", "D", "U", "H"
          ReadCounts, WriteCount,
          WriteBatch,     \* size of the buffer of consolewrite
          UartFifo,       \* characters the transmitter holds
          ConVictims,     \* bound: the readers that kkill is called for
          NoChar

ASSUME ConsoleAssumption ==
  /\ {INPUT_BUF_SIZE, WriteBatch, UartFifo} \subseteq Nat \ {0} /\ WriteCount \in Nat
  /\ UINTC \in Nat /\ UINTC % INPUT_BUF_SIZE = 0 /\ UINTC > INPUT_BUF_SIZE
  /\ ConChar \subseteq {"x", "newline", "D", "U", "H"} /\ ReadCounts \subseteq Nat
  /\ ConReader \cap ConWriter = {} /\ ConVictims \subseteq ConReader /\ NoChar \notin ConChar

VARIABLES cons,       \* buf, r, w and e
          con_read,   \* each reader: where it is, n, target and killed
          con_write,  \* each writer: where it is, bytes left, and left in the batch
          uart,       \* the device: characters to send, one received, the interrupt
          tx_busy,
          uart_intr,  \* where the handler is
          printf      \* printf saw an idle transmitter

conVars == <<cons, con_read, con_write, uart, tx_busy, uart_intr, printf>>

reader_idle == [at |-> "user", n |-> 0, target |-> 0, killed |-> FALSE]
writer_idle == [at |-> "user", n |-> 0, nn |-> 0]

ConsoleInit ==
  /\ cons = [buf |-> [k \in 0 .. INPUT_BUF_SIZE - 1 |-> NoChar], r |-> 0, w |-> 0, e |-> 0]
  /\ con_read = [p \in ConReader |-> reader_idle]
  /\ con_write = [p \in ConWriter |-> writer_idle]
  /\ uart = [thr |-> 0, rx |-> NoChar, irq |-> FALSE]
  /\ tx_busy = FALSE
  /\ uart_intr = "idle"
  /\ printf = FALSE

(* Differences of indices, and the slot of one, in unsigned arithmetic.    *)
minus(a, b) == (a - b + UINTC) % UINTC
slot(a)     == a % INPUT_BUF_SIZE

con_sleepers(op, c) == [p \in DOMAIN op |-> IF op[p].at = "sleep" THEN [op[p] EXCEPT !.at = c] ELSE op[p]]

-----------------------------------------------------------------------------
(* consoleread calls wait in "woken" for cons.lock.                        *)
consoleread(p, n) ==
  /\ con_read[p].at = "user"
  /\ con_read' = [con_read EXCEPT ![p] = [at |-> "woken", n |-> n, target |-> n, killed |-> FALSE]]
  /\ UNCHANGED <<cons, con_write, uart, tx_busy, uart_intr, printf>>

(* A stretch of consoleread under cons.lock takes k characters, all but    *)
(* the last of them plain ones, and then returns or sleeps.                *)
waiting(p)   == con_read[p].at = "woken" /\ uart_intr # "echo"
at_r(k)      == cons.buf[slot(cons.r + k - 1)]
plain(k)     == \A j \in 1 .. k : at_r(j) \notin {"D", "newline"}
took(k)      == [cons EXCEPT !.r = (@ + k) % UINTC]
can_take(p)  == {k \in 0 .. minus(cons.w, cons.r) : k <= con_read[p].n}
read_return(p) ==
  /\ con_read' = [con_read EXCEPT ![p] = reader_idle]
  /\ UNCHANGED <<con_write, uart, tx_busy, uart_intr, printf>>

(* An end-of-file stays for the next call, unless it came first.           *)
consoleread_eof(p) ==
  /\ waiting(p)
  /\ \E k \in can_take(p) \ {0} :
       /\ plain(k - 1) /\ at_r(k) = "D"
       /\ cons' = took(IF k > 1 \/ con_read[p].n < con_read[p].target THEN k - 1 ELSE k)
  /\ read_return(p)

(* The call has all it wants, or a whole line, or copyout fails.           *)
consoleread_end(p) ==
  /\ waiting(p)
  /\ \E k \in can_take(p) :
       /\ k > 0 \/ con_read[p].n = 0
       /\ k > 0 => plain(k - 1) /\ at_r(k) # "D"
       /\ cons' = took(k)
  /\ read_return(p)

(* The buffer is empty and more is wanted: the reader sleeps, or returns   *)
(* if it has been killed.                                                  *)
consoleread_wait(p) ==
  /\ waiting(p)
  /\ LET k == minus(cons.w, cons.r)
     IN /\ k < con_read[p].n /\ plain(k)
        /\ cons' = took(k)
        /\ con_read' = [con_read EXCEPT ![p] =
             IF @.killed THEN reader_idle ELSE [@ EXCEPT !.at = "sleep", !.n = @ - k]]
  /\ UNCHANGED <<con_write, uart, tx_busy, uart_intr, printf>>

console_kkill(p) ==
  /\ con_read[p].at # "user"
  /\ con_read' = [con_read EXCEPT ![p].killed = TRUE, ![p].at = IF @ = "sleep" THEN "woken" ELSE @]
  /\ UNCHANGED <<cons, con_write, uart, tx_busy, uart_intr, printf>>

-----------------------------------------------------------------------------
(* consolewrite copies a batch (or copyin fails), and uartwrite sends it   *)
(* character by character: each waits for the one before to be sent.       *)
consolewrite(p) ==
  /\ con_write[p].at = "user"
  /\ con_write' = [con_write EXCEPT ![p] = [at |-> "batch", n |-> WriteCount, nn |-> 0]]
  /\ UNCHANGED <<cons, con_read, uart, tx_busy, uart_intr, printf>>

consolewrite_batch(p) ==
  /\ con_write[p].at = "batch" /\ con_write[p].n > 0
  /\ con_write' = [con_write EXCEPT ![p].at = "tx",
       ![p].nn = IF con_write[p].n < WriteBatch THEN con_write[p].n ELSE WriteBatch]
  /\ UNCHANGED <<cons, con_read, uart, tx_busy, uart_intr, printf>>

consolewrite_end(p) ==
  /\ con_write[p].at = "batch"
  /\ con_write' = [con_write EXCEPT ![p] = writer_idle]
  /\ UNCHANGED <<cons, con_read, uart, tx_busy, uart_intr, printf>>

uartwrite_sleep(p) ==
  /\ con_write[p].at = "tx" /\ tx_busy
  /\ con_write' = [con_write EXCEPT ![p].at = "sleep"]
  /\ UNCHANGED <<cons, con_read, uart, tx_busy, uart_intr, printf>>

uartwrite_char(p) ==
  /\ con_write[p].at = "tx" /\ ~tx_busy
  /\ uart' = [uart EXCEPT !.thr = @ + 1] /\ tx_busy' = TRUE
  /\ con_write' = [con_write EXCEPT ![p].n = @ - 1, ![p].nn = @ - 1,
                                    ![p].at = IF con_write[p].nn = 1 THEN "batch" ELSE "sleep"]
  /\ UNCHANGED <<cons, con_read, uart_intr, printf>>

(* uartputc_sync for printf, on another CPU: it spins for an idle UART,    *)
(* and writes.                                                             *)
uartputc_sync_idle ==
  /\ ~printf /\ uart.thr = 0
  /\ printf' = TRUE
  /\ UNCHANGED <<cons, con_read, con_write, uart, tx_busy, uart_intr>>

uartputc_sync ==
  /\ printf
  /\ uart' = [uart EXCEPT !.thr = @ + 1]
  /\ printf' = FALSE
  /\ UNCHANGED <<cons, con_read, con_write, tx_busy, uart_intr>>

-----------------------------------------------------------------------------
(* The device.                                                             *)
uart_sent ==
  /\ uart.thr > 0
  /\ uart' = [uart EXCEPT !.thr = @ - 1, !.irq = @ \/ uart.thr = 1]
  /\ UNCHANGED <<cons, con_read, con_write, tx_busy, uart_intr, printf>>

uart_received(c) ==
  /\ uart.rx = NoChar
  /\ uart' = [uart EXCEPT !.rx = c, !.irq = TRUE]
  /\ UNCHANGED <<cons, con_read, con_write, tx_busy, uart_intr, printf>>

(* uartintr: acknowledge, look at the transmitter, take characters.  The   *)
(* PLIC gives the interrupt to one CPU at a time.                          *)
uartintr_ack ==
  /\ uart_intr = "idle" /\ uart.irq
  /\ uart' = [uart EXCEPT !.irq = FALSE]
  /\ uart_intr' = "tx"
  /\ UNCHANGED <<cons, con_read, con_write, tx_busy, printf>>

uartintr_tx ==
  /\ uart_intr = "tx"
  /\ tx_busy' = (tx_busy /\ uart.thr > 0)
  /\ con_write' = IF uart.thr = 0 THEN con_sleepers(con_write, "tx") ELSE con_write
  /\ uart_intr' = "rx"
  /\ UNCHANGED <<cons, con_read, uart, printf>>

uartintr_end ==
  /\ uart_intr = "rx" /\ uart.rx = NoChar
  /\ uart_intr' = "idle"
  /\ UNCHANGED <<cons, con_read, con_write, uart, tx_busy, printf>>

(* Faulty variant: what was handed over can be erased too.                 *)
Bug_erase_committed ==
  {k \in 0 .. minus(cons.e, cons.r) :
     \A j \in 1 .. k : cons.buf[slot(minus(cons.e, j))] # "newline"}

(* uartgetc, and consoleintr.  Kill line erases back to what was handed    *)
(* over, or to a newline; backspace erases one character.  The echo waits  *)
(* for an idle transmitter.                                                *)
erasable ==
  {k \in 0 .. minus(cons.e, cons.w) :
     \A j \in 1 .. k : cons.buf[slot(minus(cons.e, j))] # "newline"}

erased(c) == CASE c = "U" -> CHOOSE k \in erasable : \A j \in erasable : j <= k
               [] c = "H" -> IF cons.e # cons.w THEN 1 ELSE 0

input(c)    == uart.rx = c /\ c # NoChar
full        == minus(cons.e, cons.r) >= INPUT_BUF_SIZE
uartgetc    == [uart EXCEPT !.rx = NoChar]
echoed(c)   == IF c \in {"U", "H"} THEN erased(c) > 0 ELSE ~full

(* The handler, holding cons.lock, saw an idle transmitter and may echo.   *)
consoleintr_idle(c) ==
  /\ uart_intr = "rx" /\ input(c) /\ echoed(c) /\ uart.thr = 0
  /\ uart_intr' = "echo"
  /\ UNCHANGED <<cons, con_read, con_write, uart, tx_busy, printf>>

echo(c) ==
  /\ uart_intr = "echo" /\ input(c)
  /\ uart' = [uartgetc EXCEPT !.thr = @ + 1]
  /\ uart_intr' = "rx"
  /\ UNCHANGED <<con_write, tx_busy, printf>>

consoleintr_erase(c) ==
  /\ c \in {"U", "H"} /\ echo(c)
  /\ cons' = [cons EXCEPT !.e = minus(@, erased(c))]
  /\ UNCHANGED con_read

(* Nothing to erase, or a full buffer, which drops the character.          *)
consoleintr_ignore(c) ==
  /\ uart_intr = "rx" /\ input(c) /\ ~echoed(c)
  /\ uart' = uartgetc
  /\ UNCHANGED <<cons, con_read, con_write, tx_busy, uart_intr, printf>>

typed(c) == [cons EXCEPT !.buf[slot(cons.e)] = c, !.e = (@ + 1) % UINTC]

line_ready(c) == c \in {"newline", "D"} \/ minus(cons.e + 1, cons.r) = INPUT_BUF_SIZE

consoleintr_store(c) ==
  /\ c \notin {"U", "H"} /\ echo(c)
  /\ IF line_ready(c)
     THEN cons' = [typed(c) EXCEPT !.w = typed(c).e] /\ con_read' = con_sleepers(con_read, "woken")
     ELSE cons' = typed(c) /\ UNCHANGED con_read

-----------------------------------------------------------------------------
uart_handler ==
  \/ uartintr_ack \/ uartintr_tx \/ uartintr_end
  \/ \E c \in ConChar : consoleintr_idle(c) \/ consoleintr_erase(c)
                         \/ consoleintr_ignore(c) \/ consoleintr_store(c)

console_input ==
  \/ \E p \in ConReader :
       \/ \E n \in ReadCounts : consoleread(p, n)
       \/ consoleread_eof(p) \/ consoleread_end(p) \/ consoleread_wait(p)
       \/ p \in ConVictims /\ console_kkill(p)
  \/ \E c \in ConChar : uart_received(c)

console_output ==
  \/ \E p \in ConWriter :
       \/ consolewrite(p) \/ consolewrite_batch(p) \/ consolewrite_end(p)
       \/ uartwrite_sleep(p) \/ uartwrite_char(p)
  \/ uartputc_sync_idle \/ uartputc_sync

ConsoleNext == console_input \/ console_output \/ uart_sent \/ uart_handler

ConsoleSpec == ConsoleInit /\ [][ConsoleNext]_conVars

-----------------------------------------------------------------------------
ConsoleTypeOK ==
  /\ cons.buf \in [0 .. INPUT_BUF_SIZE - 1 -> ConChar \cup {NoChar}]
  /\ {cons.r, cons.w, cons.e} \subseteq 0 .. UINTC - 1
  /\ con_read \in [ConReader -> [at : {"user", "sleep", "woken"},
                                 n : Nat, target : Nat, killed : BOOLEAN]]
  /\ con_write \in [ConWriter -> [at : {"user", "batch", "tx", "sleep"}, n : Nat, nn : Nat]]
  /\ uart \in [thr : Nat, rx : ConChar \cup {NoChar}, irq : BOOLEAN] /\ tx_busy \in BOOLEAN

(* The ring between r and w, and between w and e, indices modulo the width *)
(* of a uint, is the line discipline: readers get what was typed, as it    *)
(* was edited, in order and once.                                          *)
between(a, b) == [k \in 1 .. minus(b, a) |-> cons.buf[slot(a + k - 1)]]

Lines == INSTANCE LineDiscipline WITH LineChar <- ConChar, LineEnd <- {"newline", "D"},
           LineSize <- INPUT_BUF_SIZE, line <- between(cons.w, cons.e), ready <- between(cons.r, cons.w)

(* No lost wakeup: a reader sleeps only if no line is ready; and the       *)
(* buffer is never full of characters that no reader may take, which would *)
(* leave the console deaf.                                                 *)
ReadersMustWait ==
  /\ \A p \in ConReader : con_read[p].at = "sleep" => cons.r = cons.w
  /\ minus(cons.e, cons.r) = INPUT_BUF_SIZE => cons.w = cons.e

(* The two ways to the transmitter, uartwrite with tx_busy and the echo,   *)
(* which looks at the line status, together never overrun its FIFO.        *)
FifoNotOverrun == uart.thr <= UartFifo

(* tx_busy never outlives its interrupt: while it is set, a character is   *)
(* being sent, or an interrupt is pending, or the handler is about to look.*)
TxInterruptComes ==
  tx_busy => uart.thr > 0 \/ uart.irq \/ uart_intr = "tx"

(* All of that: readers, writers and the device wait for each other only   *)
(* with reason.                                                            *)
ConsoleWaitsExact == ReadersMustWait /\ FifoNotOverrun /\ TxInterruptComes

=============================================================================
