------------------------------- MODULE Files --------------------------------
(***************************************************************************)
(* The file table (file.c) and the calls that pass its references around   *)
(* (sysfile.c, pipealloc, and what fork and exit do with ofile).  Sections *)
(* under ftable.lock, p->lock and icache.lock are steps; ofile belongs to  *)
(* its process.  Pages and inode references are counted.                   *)
(***************************************************************************)
EXTENDS Integers, Sequences, FiniteSets, FiniteSetsExt

CONSTANTS Procs, initproc, NFILE, NOFILE,
          NPIPE      \* pages there are for pipes

VARIABLES file,      \* ftable.file
          pipe,      \* each pipe page: whether allocated, and its open ends
          inode,     \* references to an inode held by files, cwd and calls
          ofile,     \* each process: its descriptors
          pc,        \* each process: the rest of its call
          mine,      \* each process: files it has a reference to besides its descriptors
          ff         \* each process: the copy of a file that fileclose works on

vars == <<file, pipe, inode, ofile, pc, mine, ff>>

FileIds == 1..NFILE
Fds == 0..NOFILE - 1
Pipes == 1..NPIPE
None == [ref |-> 0, type |-> "none", pipe |-> 0, writable |-> FALSE]
Closed == [alloc |-> FALSE, readopen |-> FALSE, writeopen |-> FALSE]
NoFds == [fd \in Fds |-> 0]

\* One process runs, with a current directory.
Init == /\ file = [f \in FileIds |-> None]
        /\ pipe = [k \in Pipes |-> Closed]
        /\ inode = 1
        /\ ofile = [p \in Procs |-> NoFds]
        /\ pc = [p \in Procs |-> IF p = initproc THEN "user" ELSE "unused"]
        /\ mine = [p \in Procs |-> <<>>]
        /\ ff = [p \in Procs |-> None]

Free == {f \in FileIds : file[f].ref = 0}

\* filealloc takes the first free file.
filealloc(p) == /\ Free # {}
                /\ file' = [file EXCEPT ![Min(Free)].ref = 1]
                /\ mine' = [mine EXCEPT ![p] = Append(@, Min(Free))]

FreeFds(p) == {fd \in Fds : ofile[p][fd] = 0}
Goto(p, l) == pc' = [pc EXCEPT ![p] = l]

\* pipealloc: two files, then a page; what it got is closed on the way out.
sys_pipe(p) ==
  /\ pc[p] \in {"user", "pipe"} /\ Len(mine[p]) < 2
  /\ \/ filealloc(p) /\ Goto(p, "pipe")
     \/ Free = {} /\ Goto(p, IF mine[p] = <<>> THEN "user" ELSE "closing") /\ UNCHANGED <<file, mine>>
  /\ UNCHANGED <<pipe, inode, ofile, ff>>

End(x, k, w) == [x EXCEPT !.type = "pipe", !.pipe = k, !.writable = w]

sys_pipe_page(p) ==
  /\ pc[p] = "pipe" /\ Len(mine[p]) = 2
  /\ LET pages == {k \in Pipes : ~pipe[k].alloc}
     IN \/ /\ pages # {}
           /\ LET k == Min(pages) IN
              /\ pipe' = [pipe EXCEPT ![k] = [alloc |-> TRUE, readopen |-> TRUE, writeopen |-> TRUE]]
              /\ file' = [file EXCEPT ![mine[p][1]] = End(@, k, FALSE), ![mine[p][2]] = End(@, k, TRUE)]
           /\ Goto(p, "fds")
        \/ pages = {} /\ Goto(p, "closing") /\ UNCHANGED <<pipe, file>>
  /\ UNCHANGED <<inode, ofile, mine, ff>>

\* The two descriptors, or none and both files closed.
sys_pipe_fds(p) ==
  /\ pc[p] = "fds"
  /\ IF Cardinality(FreeFds(p)) >= 2
     THEN LET fd0 == Min(FreeFds(p))
              fd1 == Min(FreeFds(p) \ {fd0})
          IN /\ ofile' = [ofile EXCEPT ![p][fd0] = mine[p][1], ![p][fd1] = mine[p][2]]
             /\ mine' = [mine EXCEPT ![p] = <<>>]
             /\ Goto(p, "user")
     ELSE Goto(p, "closing") /\ UNCHANGED <<ofile, mine>>
  /\ UNCHANGED <<file, pipe, inode, ff>>

\* sys_open: namei or create has returned a reference to the inode.
sys_open(p) ==
  /\ pc[p] = "user"
  /\ inode' = inode + 1
  /\ Goto(p, "open")
  /\ UNCHANGED <<file, pipe, ofile, mine, ff>>

\* No file, or no descriptor for it: give up the file, then the inode.
sys_open_file(p) ==
  /\ pc[p] = "open"
  /\ \/ /\ filealloc(p)
        /\ Goto(p, IF FreeFds(p) = {} THEN "unopen" ELSE "opened")
        /\ UNCHANGED inode
     \/ Free = {} /\ Goto(p, "user") /\ inode' = inode - 1 /\ UNCHANGED <<file, mine>>
  /\ UNCHANGED <<pipe, ofile, ff>>

sys_open_done(p) ==
  /\ pc[p] = "opened"
  /\ LET f == mine[p][1] IN
     /\ file' = [file EXCEPT ![f].type = "inode", ![f].writable = TRUE]
     /\ ofile' = [ofile EXCEPT ![p][Min(FreeFds(p))] = f]
  /\ mine' = [mine EXCEPT ![p] = <<>>]
  /\ Goto(p, "user")
  /\ UNCHANGED <<pipe, inode, ff>>

\* filedup, n times.
filedup(x, n) == [x EXCEPT !.ref = @ + n]

\* sys_dup; filedup panics on a file without references.
sys_dup(p, fd) ==
  /\ pc[p] = "user" /\ ofile[p][fd] # 0 /\ FreeFds(p) # {}
  /\ LET f == ofile[p][fd] IN
     /\ ofile' = [ofile EXCEPT ![p][Min(FreeFds(p))] = f]
     /\ file' = [file EXCEPT ![f] = filedup(@, 1)]
     /\ Goto(p, IF file[f].ref < 1 THEN "panic" ELSE "user")
  /\ UNCHANGED <<pipe, inode, mine, ff>>

\* sys_close, and each turn of the loop of exit, hand a descriptor to fileclose.
drop(p, fd, l) ==
  /\ ofile[p][fd] # 0
  /\ ofile' = [ofile EXCEPT ![p][fd] = 0]
  /\ mine' = [mine EXCEPT ![p] = <<ofile[p][fd]>>]
  /\ Goto(p, l)
  /\ UNCHANGED <<file, pipe, inode, ff>>

sys_close(p, fd) == pc[p] = "user" /\ drop(p, fd, "closing")

\* The last thing exit gives up is the current directory.
exit(p) ==
  /\ p # initproc /\ pc[p] \in {"user", "exit"} /\ mine[p] = <<>> /\ ff[p] = None
  /\ \/ \E fd \in Fds : drop(p, fd, "exit") /\ \A e \in 0..fd - 1 : ofile[p][e] = 0
     \/ /\ ofile[p] = NoFds
        /\ inode' = inode - 1
        /\ Goto(p, "unused")
        /\ UNCHANGED <<file, pipe, ofile, mine, ff>>

\* fork: the child gets every descriptor, and the current directory.
fork(p, q) ==
  /\ pc[p] = "user" /\ pc[q] = "unused"
  /\ ofile' = [ofile EXCEPT ![q] = ofile[p]]
  /\ file' = [f \in FileIds |->
                filedup(file[f], Cardinality({fd \in Fds : ofile[p][fd] = f}))]
  /\ inode' = inode + 1
  /\ Goto(q, "user")
  /\ UNCHANGED <<pipe, mine, ff>>

last(f) == file[f].ref <= 1

\* fileclose under ftable.lock; the end of the pipe or the inode is left for later.
fileclose(p) ==
  /\ pc[p] \in {"closing", "unopen", "exit"} /\ mine[p] # <<>> /\ ff[p] = None
  /\ LET f == mine[p][1] IN
     IF file[f].ref < 1 THEN Goto(p, "panic") /\ UNCHANGED <<file, mine, ff>>
     ELSE /\ ff' = [ff EXCEPT ![p] = IF last(f) /\ file[f].type # "none" THEN file[f] ELSE None]
          /\ file' = [file EXCEPT ![f] = IF last(f) THEN None ELSE [@ EXCEPT !.ref = @ - 1]]
          /\ mine' = [mine EXCEPT ![p] = Tail(@)]
          /\ UNCHANGED pc
  /\ UNCHANGED <<pipe, inode, ofile>>

freed_Either(k) == ~k.readopen \/ ~k.writeopen

freed(k) == ~k.readopen /\ ~k.writeopen

\* pipeclose frees the page with the second end.
pipeclose(p) ==
  /\ pc[p] # "panic" /\ ff[p].type = "pipe"
  /\ LET k == ff[p].pipe
         e == IF ff[p].writable THEN [pipe[k] EXCEPT !.writeopen = FALSE]
                                ELSE [pipe[k] EXCEPT !.readopen = FALSE]
     IN pipe' = [pipe EXCEPT ![k] = IF freed(e) THEN Closed ELSE e]
  /\ ff' = [ff EXCEPT ![p] = None]
  /\ UNCHANGED <<file, inode, ofile, pc, mine>>

fileclose_iput(p) ==
  /\ pc[p] # "panic" /\ ff[p].type = "inode"
  /\ inode' = inode - 1
  /\ ff' = [ff EXCEPT ![p] = None]
  /\ UNCHANGED <<file, pipe, ofile, pc, mine>>

unopened(p) == IF pc[p] = "unopen" THEN 1 ELSE 0

\* The call returns; a failed sys_open gives up the inode after the file.
closed(p) == /\ pc[p] \in {"closing", "unopen"} /\ mine[p] = <<>> /\ ff[p] = None
             /\ inode' = inode - unopened(p)
             /\ Goto(p, "user")
             /\ UNCHANGED <<file, pipe, ofile, mine, ff>>

Step(p) == \/ sys_pipe(p) \/ sys_pipe_page(p) \/ sys_pipe_fds(p)
           \/ sys_open(p) \/ sys_open_file(p) \/ sys_open_done(p)
           \/ exit(p) \/ fileclose(p) \/ pipeclose(p) \/ fileclose_iput(p) \/ closed(p)
           \/ \E fd \in Fds : sys_dup(p, fd) \/ sys_close(p, fd)
           \/ \E q \in Procs : fork(p, q)

Next == \E p \in Procs : Step(p)

Spec == Init /\ [][Next]_vars

-----------------------------------------------------------------------------
Descriptors(f) == {d \in Procs \X Fds : ofile[d[1]][d[2]] = f}
Holders(f) == {p \in Procs : f \in {mine[p][i] : i \in 1..Len(mine[p])}}
Ends(k, w) == {f \in FileIds : file[f].ref > 0 /\ file[f].type = "pipe" /\ file[f].pipe = k /\ file[f].writable = w}
Closers(k, w) == {p \in Procs : ff[p].type = "pipe" /\ ff[p].pipe = k /\ ff[p].writable = w}

\* The reference count of a file is the number of descriptors for it and of calls
\* at work on it, after failed calls too; so filedup and fileclose never panic
\* (file.c:51, 65, sysfile.c:330, 454).
FilesCounted ==
  /\ \A f \in FileIds : file[f].ref = Cardinality(Descriptors(f)) + Cardinality(Holders(f))
  /\ \A p \in Procs : pc[p] # "panic"

\* An end of a pipe is open exactly while a file stands for it or is being closed,
\* and the page is allocated exactly while an end is open: readers see the end of
\* file when the last writer goes, nobody uses a page that was freed, and no failed
\* call leaks one (pipe.c:30-56, 69-74).
PipeEndsMatch ==
  \A k \in Pipes :
    /\ pipe[k].writeopen <=> Ends(k, TRUE) \union Closers(k, TRUE) # {}
    /\ pipe[k].readopen <=> Ends(k, FALSE) \union Closers(k, FALSE) # {}
    /\ pipe[k].alloc <=> pipe[k].writeopen \/ pipe[k].readopen

\* The inode has as many references as there are files, current directories and
\* calls in progress to hold one (sysfile.c:329-334, file.c:76-79).
InodeRefsMatch ==
  inode = Cardinality({f \in FileIds : file[f].ref > 0 /\ file[f].type = "inode"})
        + Cardinality({p \in Procs : ff[p].type = "inode"})
        + Cardinality({p \in Procs : pc[p] # "unused"})
        + Cardinality({p \in Procs : pc[p] \in {"open", "opened", "unopen"}})
=============================================================================
