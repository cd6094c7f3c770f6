------------------------------ MODULE Console -------------------------------
(***************************************************************************)
(* The console of console.c: the input ring with its read, write and edit  *)
(* indices, the interrupt handler that fills and edits it, the processes   *)
(* that read it, and the cursor that echoed characters move.  A step is a  *)
(* section under cons.lock; "tosleep" is kept apart because kill does not  *)
(* take that lock.                                                         *)
(***************************************************************************)
EXTENDS Integers, Sequences

CONSTANTS Readers, INPUT_BUF,
          Word,         \* indices are unsigned, modulo Word, a multiple of INPUT_BUF
          Plain,        \* ordinary characters
          MaxRead,      \* bound on the argument n of read
          Cols, Rows    \* the screen scrolls at line Rows (80 and 24 in the code)

VARIABLES buf, r, w, e, \* struct input
          reader,       \* each process: place, n, target, killed
          out,          \* what the last read that took characters got
          pos           \* the cursor

vars == <<buf, r, w, e, reader, out, pos>>

Chars == Plain \union {"nl", "eof"}
Slot(i) == i % INPUT_BUF
Dist(a, b) == (b - a) % Word             \* b - a, unsigned
Idle == [at |-> "idle", n |-> 0, target |-> 0, killed |-> FALSE]

Init == /\ buf = [i \in 0..INPUT_BUF-1 |-> "nul"]
        /\ r = 0 /\ w = 0 /\ e = 0
        /\ reader = [p \in Readers |-> Idle]
        /\ out = <<>>
        /\ pos = 0

\* No reader is between its test and sleep, with cons.lock held.
Unlocked == \A p \in Readers : reader[p].at # "tosleep"

wakeup(rd) == [p \in Readers |-> IF rd[p].at = "asleep" THEN [rd[p] EXCEPT !.at = "loop"] ELSE rd[p]]

-----------------------------------------------------------------------------
(* cgaputc: the cursor after a character, with a scroll at the last line.  *)

scroll(q) == IF q \div Cols >= Rows THEN q - Cols ELSE q

cgaputc(q, c) == scroll(CASE c = "nl" -> q + Cols - (q % Cols)
                          [] c = "backspace" -> IF q > 0 THEN q - 1 ELSE q
                          [] OTHER -> q + 1)

Backspaces(q, k) == IF k >= q THEN 0 ELSE q - k

-----------------------------------------------------------------------------
(* consoleintr, one character each                                         *)

full_Late == Dist(r, e) >= INPUT_BUF + 1

full == Dist(r, e) >= INPUT_BUF

\* default: store the character, end the line at a newline, ^D or a full ring.
typed(c) ==
  /\ Unlocked /\ ~full
  /\ buf' = [buf EXCEPT ![Slot(e)] = c]
  /\ e' = (e + 1) % Word
  /\ pos' = cgaputc(pos, c)
  /\ IF c \in {"nl", "eof"} \/ Dist(r, e') = INPUT_BUF
     THEN w' = e' /\ reader' = wakeup(reader)
     ELSE UNCHANGED <<w, reader>>
  /\ UNCHANGED <<r, out>>

\* ^H
backspace_Any ==
  /\ Unlocked /\ e # r
  /\ e' = (e - 1) % Word
  /\ pos' = cgaputc(pos, "backspace")
  /\ UNCHANGED <<buf, r, w, reader, out>>

backspace ==
  /\ Unlocked /\ e # w
  /\ e' = (e - 1) % Word
  /\ pos' = cgaputc(pos, "backspace")
  /\ UNCHANGED <<buf, r, w, reader, out>>

\* ^U: back to the start of the line, or to the last newline.
killline ==
  /\ Unlocked
  /\ LET stop == {k \in 0..Dist(w, e) : \/ k = Dist(w, e)
                                        \/ buf[Slot((e - k - 1) % Word)] = "nl"}
         k == CHOOSE i \in stop : \A j \in stop : i <= j
     IN  e' = (e - k) % Word /\ pos' = Backspaces(pos, k)
  /\ UNCHANGED <<buf, r, w, reader, out>>

-----------------------------------------------------------------------------
(* consoleread                                                             *)

\* The characters that one pass takes: up to n, to a newline, or to ^D, which is
\* put back when the call has already got something.
Avail == [i \in 1..Dist(r, w) |-> buf[Slot((r + i - 1) % Word)]]

StopsAt(n) == {i \in 1..Len(Avail) : i = n \/ i = Len(Avail) \/ Avail[i] \in {"nl", "eof"}}

putBack(n, target, k) == Avail[k] = "eof" /\ n - (k - 1) < target

take(p, n, target) ==
  LET k == CHOOSE i \in StopsAt(n) : \A j \in StopsAt(n) : i <= j
      data == SelectSeq(SubSeq(Avail, 1, k), LAMBDA c : c # "eof")
      used == IF putBack(n, target, k) THEN k - 1 ELSE k
      done == Avail[k] \in {"nl", "eof"} \/ k = n
  IN  /\ r' = (r + used) % Word
      /\ out' = IF used = 0 THEN out ELSE data
      /\ reader' = [reader EXCEPT ![p] = IF done THEN Idle
                      ELSE [@ EXCEPT !.at = "loop", !.n = n - k, !.target = target]]

loop(p, n, target) ==
  \/ r # w /\ take(p, n, target)
  \/ /\ r = w
     /\ reader' = [reader EXCEPT ![p] = IF reader[p].killed THEN Idle
                     ELSE [@ EXCEPT !.at = "tosleep", !.n = n, !.target = target]]
     /\ UNCHANGED <<r, out>>

consoleread(p, n) ==
  /\ Unlocked /\ reader[p].at = "idle"
  /\ loop(p, n, n)
  /\ UNCHANGED <<buf, w, e, pos>>

consoleread_loop(p) ==
  /\ Unlocked /\ reader[p].at = "loop"
  /\ loop(p, reader[p].n, reader[p].target)
  /\ UNCHANGED <<buf, w, e, pos>>

sleep(p) == /\ reader[p].at = "tosleep"
            /\ reader' = [reader EXCEPT ![p].at = "asleep"]
            /\ UNCHANGED <<buf, r, w, e, out, pos>>

kill(p) == /\ reader[p].at # "idle" /\ ~reader[p].killed
           /\ reader' = [reader EXCEPT ![p].killed = TRUE,
                                       ![p].at = IF @ = "asleep" THEN "loop" ELSE @]
           /\ UNCHANGED <<buf, r, w, e, out, pos>>

consolewrite(c) == /\ Unlocked
                   /\ pos' = cgaputc(pos, c)
                   /\ UNCHANGED <<buf, r, w, e, reader, out>>

Next == \/ \E c \in Chars : typed(c) \/ consolewrite(c)
        \/ backspace \/ killline
        \/ \E p \in Readers : \/ \E n \in 1..MaxRead : consoleread(p, n)
                              \/ consoleread_loop(p) \/ sleep(p) \/ kill(p)

Spec == Init /\ [][Next]_vars

-----------------------------------------------------------------------------
Ring(a, b) == [i \in 1..Dist(a, b) |-> buf[Slot((a + i - 1) % Word)]]

Lines == INSTANCE LineInput WITH
           Newline <- "nl", Eof <- "eof", Capacity <- INPUT_BUF,
           ready <- Ring(r, w), edit <- Ring(w, e)
Input == <<Ring(r, w), Ring(w, e), out>>

\* The ring behaves as a line editor: erasing never reaches a finished line, and
\* reads get the lines in the order typed, through wraparound of the indices, with
\* ^D seen once by every reader that it ends (console.c:193-272).
LinesInOrder == Lines!Spec

\* A full ring can be read: typing can never fill the ring with an unfinished
\* line that neither the keyboard nor a reader could move on (console.c:218-225).
FullIsReadable == full => w = e

\* Whoever sleeps on the console has nothing to read (console.c:246-252).
SleeperHasNothing == \A p \in Readers : reader[p].at = "asleep" => r = w

\* The cursor stays on the screen, so that the panic of console.c:150 and a write
\* outside the screen memory never happen.
CursorOnScreen == pos \in 0..Rows * Cols - 1
=============================================================================
