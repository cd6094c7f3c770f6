----------------------------- MODULE LineInput ------------------------------
(***************************************************************************)
(* What the console promises: typed characters are edited until the line   *)
(* is ended, and finished lines are read in order, a line at a time.       *)
(***************************************************************************)
EXTENDS Integers, Sequences, SequencesExt

CONSTANTS Plain, Newline, Eof, Capacity

VARIABLES ready,   \* characters of finished lines, not yet read
          edit,    \* the line being typed
          out      \* what the last read that took characters returned

vars == <<ready, edit, out>>

Ends == {Newline, Eof}

Init == ready = <<>> /\ edit = <<>> /\ out = <<>>

Type(c) == /\ Len(ready) + Len(edit) < Capacity
           /\ LET line == Append(edit, c) IN
              IF c \in Ends \/ Len(ready) + Len(line) = Capacity
              THEN ready' = ready \o line /\ edit' = <<>>
              ELSE edit' = line /\ UNCHANGED ready
           /\ UNCHANGED out

Erase == edit # <<>> /\ edit' = Front(edit) /\ UNCHANGED <<ready, out>>
KillLine == edit' = <<>> /\ UNCHANGED <<ready, out>>

\* A read takes characters of one line; an end of file alone gives nothing.
Read(k) == /\ \A i \in 1..k-1 : ready[i] \notin Ends
           /\ out' = SelectSeq(SubSeq(ready, 1, k), LAMBDA c : c # Eof)
           /\ ready' = SubSeq(ready, k + 1, Len(ready))
           /\ ready[k] = Eof => k = 1
           /\ UNCHANGED edit

Next == \/ \E c \in Plain \union Ends : Type(c)
        \/ Erase \/ KillLine
        \/ \E k \in 1..Len(ready) : Read(k)

Spec == Init /\ [][Next]_vars
=============================================================================
