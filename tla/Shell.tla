------------------------------- MODULE Shell --------------------------------
(***************************************************************************)
(* runcmd and main of sh.c, and the programs echo, cat and wc, on the      *)
(* system calls they make.  A process is a list of calls still to make; a  *)
(* descriptor names an end of a pipe, the console or a file.  An end is    *)
(* open while some descriptor names it (Files, PipeEndsMatch).             *)
(***************************************************************************)
EXTENDS Integers, Sequences, FiniteSets, FiniteSetsExt

CONSTANTS NPROC,       \* processes of the shell; 1 is the shell itself
          NPIPE, PIPESIZE,
          BUF,         \* bytes read at once by cat and wc
          Lines,       \* command lines
          Arg,         \* what echo prints
          MaxBusy      \* bound: processes left behind when the next line is typed

VARIABLES proc,        \* the processes
          pipe,        \* what is in each pipe
          printed,     \* what came out on the console and into the file
          line,        \* the command being run
          disturbed    \* a fork or pipe has failed since, or a job was in the background

vars == <<proc, pipe, printed, line, disturbed>>

Slots == 1..NPROC
Pipes == 1..NPIPE
Fds == 0..4

None == [k |-> 0, e |-> "none"]
Con == [k |-> 0, e |-> "con"]
File == [k |-> 0, e |-> "file"]

EmptyLine == [type |-> "exec", prog |-> "none"]
Nothing == [con |-> <<>>, file |-> <<>>]

Unused == [st |-> "unused", parent |-> 0, code |-> <<>>, fd |-> [i \in Fds |-> None],
           p |-> <<0, 0>>, buf |-> <<>>, n |-> 0]
Prompt == [st |-> "run", parent |-> 0, code |-> <<[op |-> "getcmd"]>>,
           fd |-> [i \in Fds |-> IF i < 3 THEN Con ELSE None],
           p |-> <<0, 0>>, buf |-> <<>>, n |-> 0]

Init == /\ proc = [s \in Slots |-> IF s = 1 THEN Prompt ELSE Unused]
        /\ pipe = [k \in Pipes |-> <<>>]
        /\ printed = Nothing
        /\ line = EmptyLine
        /\ disturbed = FALSE

Call(op) == [op |-> op]
Close(i) == [op |-> "close", fd |-> i]
ClosePipe(i) == [op |-> "closep", i |-> i]
Dup(i) == [op |-> "dup", i |-> i]
Fork(code) == [op |-> "fork", code |-> code]
Run(c) == [op |-> "runcmd", cmd |-> c]

\* What the children of a pipeline do before their commands.
pipeLeft(c) == <<Close(1), Dup(2), ClosePipe(1), ClosePipe(2), Run(c)>>
pipeRight(c) == <<Close(0), Dup(1), ClosePipe(1), ClosePipe(2), Run(c)>>

pipeCode_KeepEnd(l, r) == <<Call("pipe"), Fork(pipeLeft(l)), Fork(pipeRight(r)),
                             ClosePipe(1), Call("wait"), Call("wait")>>

pipeCode(l, r) == <<Call("pipe"), Fork(pipeLeft(l)), Fork(pipeRight(r)),
                    ClosePipe(1), ClosePipe(2), Call("wait"), Call("wait")>>

listCode_NoWait(l, r) == <<Fork(<<Run(l)>>), Run(r)>>

listCode(l, r) == <<Fork(<<Run(l)>>), Call("wait"), Run(r)>>

\* runcmd: the calls made for a command; every list ends in exit.
runcmd(c) ==
  CASE c.type = "exec"  -> <<Call(c.prog)>>
    [] c.type = "redir" -> <<Close(1), Call("open"), Run(c.cmd)>>
    [] c.type = "list"  -> listCode(c.left, c.right)
    [] c.type = "pipe"  -> pipeCode(c.left, c.right)
    [] c.type = "back"  -> <<Fork(<<Run(c.cmd)>>)>>

Op(s) == IF proc[s].code = <<>> THEN "exit" ELSE Head(proc[s].code).op
Running(s, op) == proc[s].st = "run" /\ Op(s) = op
Ins(s) == Head(proc[s].code)

\* The process with its first call done.
Done(s) == [proc[s] EXCEPT !.code = Tail(@)]
Become(s, q) == proc' = [proc EXCEPT ![s] = q]
FreeFds(s) == {i \in Fds : proc[s].fd[i] = None}
Open(k, e) == \E s \in Slots, i \in Fds : proc[s].fd[i] = [k |-> k, e |-> e]

Others == {q \in Slots \ {1} : proc[q].st # "unused"}

\* The shell reads a line, forks, and waits for the child.
getcmd(s) ==
  /\ Running(s, "getcmd") /\ Cardinality(Others) <= MaxBusy
  /\ line' \in Lines
  /\ Become(s, [proc[s] EXCEPT !.code = <<Fork(<<Run(line')>>), Call("wait"), Call("getcmd")>>])
  /\ printed' = Nothing
  /\ disturbed' = (Others # {})
  /\ UNCHANGED pipe

expand(s) ==
  /\ Running(s, "runcmd")
  /\ Become(s, [proc[s] EXCEPT !.code = runcmd(Ins(s).cmd)])
  /\ UNCHANGED <<pipe, printed, line, disturbed>>

setfd(s, i, x) == Become(s, [Done(s) EXCEPT !.fd[i] = x])

descriptors(s) ==
  /\ \/ Running(s, "close") /\ setfd(s, Ins(s).fd, None)
     \/ Running(s, "closep") /\ setfd(s, proc[s].p[Ins(s).i], None)
     \/ Running(s, "open") /\ setfd(s, Min(FreeFds(s)), File)
     \/ Running(s, "dup") /\ setfd(s, Min(FreeFds(s)), proc[s].fd[proc[s].p[Ins(s).i]])
  /\ UNCHANGED <<pipe, printed, line, disturbed>>

\* A process that exits: its children go to init, which reaps the dead ones.
exited(s) ==
  [q \in Slots |->
     IF q = s THEN IF s = 1 THEN Prompt
                   ELSE IF proc[s].parent = 0 THEN Unused
                   ELSE [Unused EXCEPT !.st = "zombie", !.parent = proc[s].parent]
     ELSE IF proc[q].parent # s THEN proc[q]
     ELSE IF proc[q].st = "zombie" THEN Unused ELSE [proc[q] EXCEPT !.parent = 0]]

\* pipe, for which a page may be missing: the shell's panic is an exit.
sys_pipe(s) ==
  /\ Running(s, "pipe")
  /\ LET free == {k \in Pipes : ~Open(k, "r") /\ ~Open(k, "w")}
         a == Min(FreeFds(s))
         b == Min(FreeFds(s) \ {a})
     IN \/ /\ free # {}
           /\ Become(s, [Done(s) EXCEPT !.p = <<a, b>>, !.fd[a] = [k |-> Min(free), e |-> "r"],
                                        !.fd[b] = [k |-> Min(free), e |-> "w"]])
           /\ pipe' = [pipe EXCEPT ![Min(free)] = <<>>]
           /\ UNCHANGED disturbed
        \/ free = {} /\ proc' = exited(s) /\ disturbed' = TRUE /\ UNCHANGED pipe
  /\ UNCHANGED <<printed, line>>

\* fork1: a failed fork ends the process (init starts another shell).
fork1(s) ==
  /\ Running(s, "fork")
  /\ LET free == {q \in Slots : proc[q].st = "unused"}
     IN \/ /\ free # {}
           /\ proc' = [proc EXCEPT ![s] = Done(s),
                         ![Min(free)] = [proc[s] EXCEPT !.parent = s, !.code = Ins(s).code]]
           /\ UNCHANGED disturbed
        \/ free = {} /\ proc' = exited(s) /\ disturbed' = TRUE
  /\ UNCHANGED <<pipe, printed, line>>

wait(s) ==
  /\ Running(s, "wait")
  /\ LET kids == {q \in Slots : proc[q].parent = s}
         dead == {q \in kids : proc[q].st = "zombie"}
     IN \/ dead # {} /\ proc' = [proc EXCEPT ![s] = Done(s), ![Min(dead)] = Unused]
        \/ kids = {} /\ Become(s, Done(s))
  /\ UNCHANGED <<pipe, printed, line, disturbed>>

exit(s) == /\ Running(s, "exit")
           /\ proc' = exited(s)
           /\ UNCHANGED <<pipe, printed, line, disturbed>>

\* echo has what it prints, and writes it like wc its counts: errors are ignored.
echo(s) ==
  /\ Running(s, "echo")
  /\ Become(s, [proc[s] EXCEPT !.code = <<Call("print")>>, !.buf = Arg])
  /\ UNCHANGED <<pipe, printed, line, disturbed>>

\* One byte to descriptor 1; q is the process after a failed write.
write(s, q) ==
  LET d == proc[s].fd[1]
      b == Head(proc[s].buf)
      t == [proc[s] EXCEPT !.buf = Tail(@)]
  IN CASE d.e \in {"con", "file"} ->
            printed' = [printed EXCEPT ![d.e] = Append(@, b)] /\ Become(s, t) /\ UNCHANGED pipe
       [] d.e = "w" /\ ~Open(d.k, "r") -> Become(s, q) /\ UNCHANGED <<pipe, printed>>
       [] OTHER -> /\ Len(pipe[d.k]) < PIPESIZE
                   /\ pipe' = [pipe EXCEPT ![d.k] = Append(@, b)] /\ Become(s, t) /\ UNCHANGED printed

print(s) ==
  /\ Running(s, "print")
  /\ IF proc[s].buf = <<>> THEN Become(s, Done(s)) /\ UNCHANGED <<pipe, printed>>
     ELSE write(s, [proc[s] EXCEPT !.buf = Tail(@)])
  /\ UNCHANGED <<line, disturbed>>

\* A read of descriptor 0, a pipe (the console is never typed at): what is there, or the
\* end of the file, after which the process is q.
read(s, q) ==
  LET k == proc[s].fd[0].k
      n == Min({BUF, Len(pipe[k])})
  IN /\ proc[s].fd[0].e = "r"
     /\ \/ /\ n > 0
           /\ Become(s, [proc[s] EXCEPT !.buf = SubSeq(pipe[k], 1, n)])
           /\ pipe' = [pipe EXCEPT ![k] = SubSeq(@, n + 1, Len(@))]
        \/ n = 0 /\ ~Open(k, "w") /\ Become(s, q) /\ UNCHANGED pipe

cat(s) ==
  /\ Running(s, "cat")
  /\ IF proc[s].buf = <<>> THEN read(s, Done(s)) /\ UNCHANGED printed
     ELSE write(s, [Done(s) EXCEPT !.buf = <<>>])
  /\ UNCHANGED <<line, disturbed>>

wc(s) ==
  /\ Running(s, "wc")
  /\ IF proc[s].buf = <<>>
     THEN read(s, [proc[s] EXCEPT !.code = <<Call("print")>>, !.buf = <<proc[s].n>>])
     ELSE /\ Become(s, [proc[s] EXCEPT !.n = @ + Len(proc[s].buf), !.buf = <<>>])
          /\ UNCHANGED pipe
  /\ UNCHANGED <<printed, line, disturbed>>

Step(s) == \/ expand(s) \/ descriptors(s) \/ sys_pipe(s) \/ fork1(s) \/ wait(s) \/ exit(s)
           \/ echo(s) \/ print(s) \/ cat(s) \/ wc(s)

Next == \E s \in Slots : getcmd(s) \/ Step(s)

Spec == Init /\ [][Next]_vars

\* The scheduler runs every process that can run.
FairSpec == Spec /\ \A s \in Slots : WF_vars(Step(s))

-----------------------------------------------------------------------------
\* What a command writes to descriptor 1 and the file, given its input.
RECURSIVE Meaning(_, _)
Meaning(c, in) ==
  CASE c.type = "exec"  -> [out |-> CASE c.prog = "echo" -> Arg [] c.prog = "cat" -> in
                                      [] OTHER -> <<Len(in)>>, file |-> <<>>]
    [] c.type = "redir" -> [out |-> <<>>, file |-> Meaning(c.cmd, in).out]
    [] c.type = "list"  -> LET l == Meaning(c.left, in) r == Meaning(c.right, in)
                           IN [out |-> l.out \o r.out, file |-> l.file \o r.file]
    [] c.type = "pipe"  -> LET l == Meaning(c.left, in) r == Meaning(c.right, l.out)
                           IN [out |-> r.out, file |-> l.file \o r.file]
    [] OTHER            -> [out |-> <<>>, file |-> <<>>]

InForeground == line.type # "back" /\ line # EmptyLine

\* When the shell prompts again, a foreground command has printed exactly what its
\* parts, composed by their pipes and in their order, mean: nothing is lost at the
\* end of a writer, nothing doubled, no command of a list starts early (sh.c:84-120).
OutputRight ==
  Running(1, "getcmd") /\ InForeground /\ ~disturbed =>
    /\ printed.con = Meaning(line, <<>>).out
    /\ printed.file = Meaning(line, <<>>).file

\* Every process of a command ends and the shell prompts again, also when a fork
\* failed half way: all copies of a pipe's write end get closed, so its reader sees
\* the end (sh.c:99-117).
JobsEnd == []<>(Others = {} /\ Running(1, "getcmd"))
=============================================================================
