------------------------------ MODULE MCLines -------------------------------
(***************************************************************************)
(* What is typed at the shell, its parser and grep in the small instances. *)
(***************************************************************************)
EXTENDS Integers, Sequences, SequencesExt

exec(p) == [type |-> "exec", prog |-> p]
pair(t, l, r) == [type |-> t, left |-> l, right |-> r]

\* Pipelines of two to four programs, a list inside one, a reader whose writer writes
\* to a file, a writer without reader, a list, a background job.
ShellLines ==
  LET echo == exec("echo") cat == exec("cat") wc == exec("wc")
  IN {pair("pipe", echo, pair("pipe", cat, pair("pipe", cat, wc))),
      pair("pipe", echo, pair("pipe", cat, wc)),
      pair("pipe", pair("list", echo, echo), wc),
      pair("pipe", [type |-> "redir", cmd |-> echo], wc),
      pair("pipe", echo, echo),
      pair("list", echo, echo),
      [type |-> "back", cmd |-> echo]}

-----------------------------------------------------------------------------
Leaf == {[type |-> "exec", argv |-> v] : v \in {<<>>, <<<<"a">>>>, <<<<"a">>, <<"b", "a">>>>}}

Around(T) == {[type |-> "redir", cmd |-> c, fd |-> n, file |-> <<"b">>] : c \in T, n \in {0, 1}}
             \union {[type |-> "back", cmd |-> c] : c \in T}

\* The trees one level above T.
Above(T) == T \union Around(T)
              \union {pair(t, l, r) : t \in {"pipe", "list"}, l \in Leaf, r \in T}
              \union {pair(t, l, r) : t \in {"pipe", "list"}, l \in T, r \in Leaf}

Trees == Above(Above(Leaf))

\* A tree as words and symbols, by the grammar: a list has jobs, a job a pipeline, a
\* pipeline commands; anything else stands in parentheses.
RECURSIVE aLine(_), aJob(_), aPipeline(_), aCommand(_)
aLine(t) == IF t.type = "list" THEN aJob(t.left) \o <<<<";">>>> \o aLine(t.right) ELSE aJob(t)
aJob(t) == IF t.type = "back" THEN Append(aJob(t.cmd), <<"&">>) ELSE aPipeline(t)
aPipeline(t) == IF t.type = "pipe" THEN aCommand(t.left) \o <<<<"|">>>> \o aPipeline(t.right)
                ELSE aCommand(t)
aCommand(t) == CASE t.type = "exec"  -> t.argv
                 [] t.type = "redir" -> aCommand(t.cmd) \o <<<<IF t.fd = 0 THEN "<" ELSE ">">>, t.file>>
                 [] OTHER            -> <<<<"(">>>> \o aLine(t) \o <<<<")">>>>

Letters == {"a", "b"}

\* With blanks only between words, and with blanks everywhere.
Tight(ts) == FoldLeft(LAMBDA l, w : IF l # <<>> /\ Last(l) \in Letters /\ w[1] \in Letters
                                    THEN l \o <<" ">> \o w ELSE l \o w, <<>>, ts)
Wide(ts) == FoldLeft(LAMBDA l, w : l \o <<" ">> \o w, <<>>, ts) \o <<" ">>

\* The trees in both layouts, and all short lines, whatever they mean.
ParserLines ==
  {[line |-> Tight(aLine(t)), tree |-> t] : t \in Trees}
    \union {[line |-> Wide(aLine(t)), tree |-> t] : t \in Trees}
    \union {[line |-> l, tree |-> [type |-> "any"]] :
              l \in UNION {[1..n -> {"a", " ", "|", "(", ")", ";", "&", ">"}] : n \in 0..4}}

-----------------------------------------------------------------------------
\* All patterns of up to four characters, and texts with empty lines, a last line
\* without its newline, and lines that two reads of four characters cut.
GrepInputs ==
  LET texts == {<<"a", "b", "\n", "\n", "b">>,
                <<"b", "a", "a", "\n", "a", "\n", "$", "a", "\n">>,
                <<"b", "a", "a", "\n", "*", "\n", "a">>}
  IN {[re |-> p, text |-> t] : p \in UNION {[1..n -> {"a", ".", "*", "^", "$"}] : n \in 0..4}, t \in texts}
=============================================================================
