-------------------------------- MODULE Grep --------------------------------
(***************************************************************************)
(* The matcher of grep.c (match, matchhere, matchstar) and the loop of     *)
(* grep that finds the lines in what it reads.  A text is a sequence of    *)
(* characters; position k is behind its first k.                           *)
(***************************************************************************)
EXTENDS Integers, Sequences, SequencesExt, FiniteSets, FiniteSetsExt

CONSTANTS Jobs,       \* patterns, with the input of each
          BUFSIZE     \* sizeof(buf)

VARIABLES job, rest,  \* what is not read yet
          buf,        \* the m bytes kept from earlier reads
          out, pc

vars == <<job, rest, buf, out, pc>>

NL == "\n"
re == job.re

c(s, k) == IF k < Len(s) THEN s[k + 1] ELSE "NUL"

RECURSIVE matchhere(_, _, _), matchstar(_, _, _, _)

\* The pattern from r on matches text from t on.
matchhere(r, text, t) ==
  IF c(re, r) = "NUL" THEN TRUE
  ELSE IF c(re, r + 1) = "*" THEN matchstar(c(re, r), r + 2, text, t)
  ELSE IF c(re, r) = "$" /\ c(re, r + 1) = "NUL" THEN c(text, t) = "NUL"
  ELSE IF c(text, t) # "NUL" /\ c(re, r) \in {".", c(text, t)} THEN matchhere(r + 1, text, t + 1)
  ELSE FALSE

\* Zero or more ch, then the pattern from r on.
matchstar(ch, r, text, t) ==
  \/ matchhere(r, text, t)
  \/ c(text, t) # "NUL" /\ ch \in {".", c(text, t)} /\ matchstar(ch, r, text, t + 1)

from_Some(text) == 0..Len(text) - 1

\* Where match tries: the empty end of the text included.
from(text) == 0..Len(text)

match(text) == IF c(re, 0) = "^" THEN matchhere(1, text, 0)
               ELSE \E t \in from(text) : matchhere(0, text, t)

-----------------------------------------------------------------------------
Init == /\ job \in Jobs
        /\ rest = job.text /\ buf = <<>> /\ out = <<>> /\ pc = "read"

RECURSIVE lines(_)
\* The complete lines of s.
lines(s) == IF ~\E k \in DOMAIN s : s[k] = NL THEN <<>>
            ELSE LET q == Min({k \in DOMAIN s : s[k] = NL})
                 IN <<SubSeq(s, 1, q - 1)>> \o lines(SubSeq(s, q + 1, Len(s)))

written(ls) == SelectSeq(ls, match)

\* What stays in buf: the bytes behind the last line, and nothing of a line that
\* has not ended yet.
tail(s) == IF lines(s) = <<>> THEN <<>>
           ELSE SubSeq(s, Max({k \in DOMAIN s : s[k] = NL}) + 1, Len(s))

\* A read of a file: as much as fits or is left.
grep == LET n == Min({BUFSIZE - Len(buf) - 1, Len(rest)})
            s == buf \o SubSeq(rest, 1, n)
        IN /\ pc = "read"
           /\ IF n = 0 THEN pc' = "done" /\ UNCHANGED <<rest, buf, out>>
              ELSE /\ out' = out \o written(lines(s))
                   /\ buf' = tail(s)
                   /\ rest' = SubSeq(rest, n + 1, Len(rest))
                   /\ UNCHANGED pc
           /\ UNCHANGED job

Done == pc = "done" /\ UNCHANGED vars

Next == grep \/ Done

Spec == Init /\ [][Next]_vars

-----------------------------------------------------------------------------
(* The reference: a pattern is a sequence of atoms, each takes a set of    *)
(* positions in the text to the positions it can end at.                   *)

RECURSIVE Atoms(_)
Atoms(r) == CASE c(re, r) = "NUL" -> <<>>
              [] c(re, r + 1) = "*" -> <<[ch |-> c(re, r), star |-> TRUE]>> \o Atoms(r + 2)
              [] OTHER -> <<[ch |-> c(re, r), star |-> FALSE]>> \o Atoms(r + 1)

Takes(ch, text, k) == k < Len(text) /\ ch \in {".", text[k + 1]}

After(S, a, text) ==
  IF a.star THEN {j \in 0..Len(text) : \E i \in S : i <= j /\ \A k \in i..j - 1 : Takes(a.ch, text, k)}
  ELSE {i + 1 : i \in {k \in S : Takes(a.ch, text, k)}}

Matches(text) ==
  LET anchored == c(re, 0) = "^"
      all == Atoms(IF anchored THEN 1 ELSE 0)
      toEnd == all # <<>> /\ Last(all) = [ch |-> "$", star |-> FALSE]
      ends == FoldLeft(LAMBDA S, a : After(S, a, text), IF anchored THEN {0} ELSE 0..Len(text),
                       IF toEnd THEN Front(all) ELSE all)
  IN IF toEnd THEN Len(text) \in ends ELSE ends # {}

Fits == \A k \in DOMAIN lines(job.text) : Len(lines(job.text)[k]) < BUFSIZE - 1

\* From a file whose lines fit the buffer, grep prints exactly the lines that match the
\* pattern, each once and in order, wherever the reads cut them; the matcher's search
\* with backtracking agrees with the set of positions each part of the pattern can
\* reach (grep.c:16-35, 72-106).
GrepRight == pc = "done" /\ Fits => out = SelectSeq(lines(job.text), Matches)
=============================================================================
