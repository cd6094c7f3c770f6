------------------------------ MODULE ShParse -------------------------------
(***************************************************************************)
(* The parser of the shell (sh.c): gettoken and peek on a line of          *)
(* characters, one operator for each parse function, and nulterminate,     *)
(* which cuts the line into strings only when the tree is complete.  A     *)
(* word is kept as the code keeps it: where it starts and ends in the      *)
(* line.  A panic ends the child that parses; ok is FALSE then.            *)
(***************************************************************************)
EXTENDS Integers, Sequences, SequencesExt, FiniteSets

CONSTANTS Jobs,      \* what is typed: a line, and the tree it should have or NoTree
          MAXARGS

VARIABLES job, cmd, nul, pc

vars == <<job, cmd, nul, pc>>

NoTree == [type |-> "any"]
whitespace == {" "}
symbols == {"<", "|", ">", "&", ";", "(", ")"}

line == job.line
es == Len(line) + 1
at(s) == IF s < es THEN line[s] ELSE "NUL"

RECURSIVE skip(_), word(_)
skip(s) == IF at(s) \in whitespace THEN skip(s + 1) ELSE s
word(s) == IF at(s) \in whitespace \union symbols \union {"NUL"} THEN s ELSE word(s + 1)

ending(q) == CASE at(q) = "NUL" -> q
               [] at(q) = ">" /\ at(q + 1) = ">" -> q + 2
               [] at(q) \in symbols -> q + 1
               [] OTHER -> word(q)

\* The token from q to eq, and where the next one starts.
token(q, eq) ==
  [ret |-> IF at(q) = ">" /\ eq = q + 2 THEN "+"
           ELSE IF at(q) \in symbols \union {"NUL"} THEN at(q) ELSE "a",
   q |-> q, eq |-> eq, s |-> skip(eq)]

gettoken(s) == token(skip(s), ending(skip(s)))

peek(s, toks) == at(skip(s)) \in toks

Word(t) == [q |-> t.q, eq |-> t.eq]
execcmd(argv) == [type |-> "exec", argv |-> argv]
redircmd(c, r) == [type |-> "redir", cmd |-> c, fd |-> r.fd, file |-> r.file]
pipecmd(l, r) == [type |-> "pipe", left |-> l, right |-> r]
listcmd(l, r) == [type |-> "list", left |-> l, right |-> r]
backcmd(c) == [type |-> "back", cmd |-> c]

\* What a parse function leaves: its command, the rest of the line, no panic so far.
At(c, s, ok) == [cmd |-> c, s |-> s, ok |-> ok]

\* The redirections at s.  The code wraps its command in each at once; the wrapped
\* execcmd may still get arguments, so they are collected here and applied at the end.
RECURSIVE parseredirs(_, _), redirection(_, _, _)
redirection(rs, tok, file) ==
  IF file.ret # "a" THEN [rs |-> rs, s |-> file.s, ok |-> FALSE]
  ELSE parseredirs(Append(rs, [fd |-> IF tok.ret = "<" THEN 0 ELSE 1, file |-> Word(file)]), file.s)

parseredirs(rs, s) ==
  IF peek(s, {"<", ">"}) THEN redirection(rs, gettoken(s), gettoken(gettoken(s).s))
  ELSE [rs |-> rs, s |-> skip(s), ok |-> TRUE]

wrapped_First(c, rs) == FoldLeft(redircmd, c, Reverse(rs))

wrapped(c, rs) == FoldLeft(redircmd, c, rs)

\* The loop of parseexec, from s on, with the arguments and redirections so far.
RECURSIVE arguments(_, _, _), argument(_, _, _, _)
argument(argv, rs, tok, r) ==
  IF tok.ret # "a" \/ Len(argv) + 1 >= MAXARGS \/ ~r.ok THEN At(execcmd(argv), tok.s, FALSE)
  ELSE arguments(Append(argv, Word(tok)), r.rs, r.s)

arguments(argv, rs, s) ==
  IF peek(s, {"|", ")", "&", ";"}) \/ gettoken(s).ret = "NUL"
  THEN At(wrapped(execcmd(argv), rs), skip(s), TRUE)
  ELSE argument(argv, rs, gettoken(s), parseredirs(rs, gettoken(s).s))

RECURSIVE parseline(_), parsepipe(_), parseblock(_), parseexec(_)

\* parseline's loop over "&".
RECURSIVE backs(_, _)
backs(c, s) == IF peek(s, {"&"}) THEN backs(backcmd(c), gettoken(s).s) ELSE At(c, s, TRUE)

\* parseline and the others behind the call they start with: its result is a parameter.
listed(b) ==
  IF peek(b.s, {";"}) THEN [parseline(gettoken(b.s).s) EXCEPT !.cmd = listcmd(b.cmd, @)] ELSE b

parseline_rest(p) == IF p.ok THEN listed(backs(p.cmd, p.s)) ELSE p

parseline(s) == parseline_rest(parsepipe(s))

parsepipe_rest(e) ==
  IF e.ok /\ peek(e.s, {"|"}) THEN [parsepipe(gettoken(e.s).s) EXCEPT !.cmd = pipecmd(e.cmd, @)]
  ELSE e

parsepipe(s) == parsepipe_rest(parseexec(s))

redirected(c, r) == At(wrapped(c, r.rs), r.s, r.ok)

parseblock_rest(l) ==
  IF l.ok /\ peek(l.s, {")"}) THEN redirected(l.cmd, parseredirs(<<>>, gettoken(l.s).s))
  ELSE [l EXCEPT !.ok = FALSE]

parseblock(s) == parseblock_rest(parseline(gettoken(s).s))

parseexec_rest(r) ==
  IF r.ok THEN arguments(<<>>, r.rs, r.s) ELSE At(execcmd(<<>>), r.s, FALSE)

parseexec(s) == IF peek(s, {"("}) THEN parseblock(s) ELSE parseexec_rest(parseredirs(<<>>, s))

\* Where the NUL behind a word goes.
cut(w) == {w.eq}

\* Where nulterminate writes: behind every word of the tree.
RECURSIVE nulterminate(_)
nulterminate(c) ==
  CASE c.type = "exec"  -> UNION {cut(c.argv[k]) : k \in DOMAIN c.argv}
    [] c.type = "redir" -> nulterminate(c.cmd) \union cut(c.file)
    [] c.type = "back"  -> nulterminate(c.cmd)
    [] OTHER            -> nulterminate(c.left) \union nulterminate(c.right)

Init == /\ job \in Jobs
        /\ cmd = NoTree /\ nul = {} /\ pc = "parse"

\* parsecmd: leftovers of the line are a syntax error.
parsecmd_rest(p) ==
  /\ IF p.ok /\ skip(p.s) = es
     THEN pc' = "run" /\ cmd' = p.cmd /\ nul' = nulterminate(p.cmd)
     ELSE pc' = "panic" /\ UNCHANGED <<cmd, nul>>
  /\ UNCHANGED job

parsecmd == pc = "parse" /\ parsecmd_rest(parseline(1))

Parsed == pc # "parse" /\ UNCHANGED vars

Next == parsecmd \/ Parsed

Spec == Init /\ [][Next]_vars

-----------------------------------------------------------------------------
\* The C string at q, now that the line is cut.
string(q) == LET end == CHOOSE e \in q..es : /\ e \in nul \union {es}
                                             /\ \A f \in q..e - 1 : f \notin nul
             IN SubSeq(line, q, end - 1)

RECURSIVE words(_)
words(c) ==
  CASE c.type = "exec"  -> c.argv
    [] c.type = "redir" -> Append(words(c.cmd), c.file)
    [] c.type = "back"  -> words(c.cmd)
    [] OTHER            -> words(c.left) \o words(c.right)

Plain(s) == at(s) \notin whitespace \union symbols \union {"NUL"}
Starts == {s \in 1..Len(line) : Plain(s) /\ (s > 1 => ~Plain(s - 1))}

\* A line that parses is used up: each word of it is in the tree once, and the strings
\* the program gets are these words, although they are cut out of the line only after
\* the parse and the cut may overwrite an operator (sh.c:335-341, 449-493).
WordsKept ==
  pc = "run" =>
    LET w == words(cmd)
    IN /\ Len(w) = Cardinality(Starts) /\ {w[k].q : k \in DOMAIN w} = Starts
       /\ \A s \in Starts : string(s) = SubSeq(line, s, word(s) - 1)

\* A tree with its words as strings.
RECURSIVE shape(_)
shape(c) ==
  CASE c.type = "exec"  -> execcmd([k \in DOMAIN c.argv |-> string(c.argv[k].q)])
    [] c.type = "redir" -> redircmd(shape(c.cmd), [fd |-> c.fd, file |-> string(c.file.q)])
    [] c.type = "back"  -> backcmd(shape(c.cmd))
    [] OTHER            -> [type |-> c.type, left |-> shape(c.left), right |-> shape(c.right)]

\* A command written down with the usual precedences, and parentheses where they are
\* needed, is parsed to that command (sh.c:344-446).
ParsesBack == job.tree # NoTree /\ pc # "parse" => pc = "run" /\ shape(cmd) = job.tree
=============================================================================
