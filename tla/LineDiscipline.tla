--------------------------- MODULE LineDiscipline ---------------------------
(***************************************************************************)
(* What the console promises its readers: typed characters form a line     *)
(* that may still be edited; a newline, an end-of-file or a full buffer    *)
(* hands the line over as it is, and readers take handed over characters   *)
(* in order, each once.                                                    *)
(***************************************************************************)
EXTENDS Naturals, Sequences

CONSTANTS LineChar,   \* characters that may be part of a line
          LineEnd,    \* the ones that end it, a newline and an end-of-file
          LineSize    \* room for typed and handed over characters

VARIABLES line,    \* typed, and still subject to editing
          ready    \* handed over to the readers

lineVars == <<line, ready>>

LineInit == line = <<>> /\ ready = <<>>

(* A character is typed: the line is handed over with it when it is the    *)
(* last of the line, or the last there is room for, and not before.        *)
Type(c) ==
  /\ Len(line) + Len(ready) < LineSize
  /\ IF c \in LineEnd \/ Len(line) + Len(ready) + 1 = LineSize
     THEN line' = <<>> /\ ready' = ready \o Append(line, c)
     ELSE line' = Append(line, c) /\ ready' = ready

(* Erase some of the characters typed last.                                *)
Erase(k) == line' = SubSeq(line, 1, Len(line) - k) /\ ready' = ready

Take(k) == ready' = SubSeq(ready, k + 1, Len(ready)) /\ line' = line

LineNext ==
  \/ \E c \in LineChar : Type(c)
  \/ \E k \in 1 .. Len(line) : Erase(k)
  \/ \E k \in 1 .. Len(ready) : Take(k)

LineSpec == LineInit /\ [][LineNext]_lineVars

=============================================================================
