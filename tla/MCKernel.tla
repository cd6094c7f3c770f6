------------------------------ MODULE MCKernel ------------------------------
(***************************************************************************)
(* Small instances of the kernel's parts other than disks, pipes and file  *)
(* systems, and of the shell and some programs.  A behaviour is one of the *)
(* part chosen in its initial state; the variables of the others are 0.    *)
(* So TLC explores the sum of the parts' states in one run.  The processes *)
(* of the inode cache are symmetric, and no other part uses them.          *)
(***************************************************************************)
EXTENDS Integers, Sequences, TLC, MCLines

CONSTANTS p1, p2, p3, q1, q2, r1, r2, Nobody

VARIABLES part,
          ptable, nextpid, pcpu, plock, tlock, ticks, nap,               \* Proc
          scpu, slock, thread,                                           \* Spinlock
          cbuf, cr, cw, ce, reader, cout, pos,                           \* Console
          free, space, sz, job,                                          \* Vm
          bpc, next, freelist, use_lock, br, cell, esp, pages, process,  \* Boot
          file, fpipe, inode, ofile, fpc, mine, ff,                      \* Files
          idisk, bitmap, names, ic, busy, dirlock, ipc, ip, target, ad, \* Icache
          proc, pipe, printed, line, disturbed,                          \* Shell
          pjob, cmd, nul, ppc,                                           \* ShParse
          ptr, size, freep, started, brk, taken,                         \* Umalloc
          gjob, rest, gbuf, gout, gpc                                    \* Grep

pv == <<ptable, nextpid, pcpu, plock, tlock, ticks, nap>>
sv == <<scpu, slock, thread>>
cv == <<cbuf, cr, cw, ce, reader, cout, pos>>
vv == <<free, space, sz, job>>
bv == <<bpc, next, freelist, use_lock, br, cell, esp, pages, process>>
fv == <<file, fpipe, inode, ofile, fpc, mine, ff>>
iv == <<idisk, bitmap, names, ic, busy, dirlock, ipc, ip, target, ad>>
hv == <<proc, pipe, printed, line, disturbed>>
av == <<pjob, cmd, nul, ppc>>
mv == <<ptr, size, freep, started, brk, taken>>
gv == <<gjob, rest, gbuf, gout, gpc>>

\* Two CPUs and a third slot for a child's child; ticks wraps after three.
P == INSTANCE Proc WITH NPROC <- 3, NCPU <- 2, MaxPid <- 3, Word <- 3, Naps <- {2}, Victims <- {2},
                        cpu <- pcpu

\* Four slots, so that a parent other than init's child abandons a zombie.
Q == INSTANCE Proc WITH NPROC <- 4, NCPU <- 1, MaxPid <- 4, Word <- 2, Naps <- {}, Victims <- {},
                        cpu <- pcpu

S == INSTANCE Spinlock WITH NCPU <- 2, NTHREAD <- 2, cpu <- scpu, lock <- slock

\* Two readers at a ring of two characters, indices modulo 4, a screen of two columns.
C == INSTANCE Console WITH Readers <- {r1, r2}, INPUT_BUF <- 2, Word <- 4, Plain <- {"x"},
                           MaxRead <- 2, Cols <- 2, Rows <- 1,
                           buf <- cbuf, r <- cr, w <- cw, e <- ce, out <- cout

\* Pages run out: two processes in 15 pages, page tables of two entries.
V == INSTANCE Vm WITH NPROC <- 2, NPAGE <- 15, PGSIZE <- 2, NPTENTRIES <- 2, KERNBASE <- 8,
                      Word <- 16, Images <- {1, 3}, Deltas <- {-16, -4, -3, 1, 3, 9}

B == INSTANCE Boot WITH NCPU <- 3, Low <- 3, High <- 2, pc <- bpc, r <- br

\* Fewer files than descriptors, one page for pipes.
F == INSTANCE Files WITH Procs <- {q1, q2}, initproc <- q1, NFILE <- 3, NOFILE <- 2, NPIPE <- 1,
                         pipe <- fpipe, pc <- fpc

\* Two built-in inodes and one ext2 inode in two cache entries, so that the table fills.
I == INSTANCE Icache WITH Procs <- {p1, p2, p3}, Fs <- {1, 2}, Ext2 <- {11}, NINODE <- 2,
                          disk <- idisk, pc <- ipc

MCSymmetry == Permutations({p1, p2, p3}) \union Permutations({r1, r2})

\* Pipes of one byte, and too few pipes and processes for the longest line.
H == INSTANCE Shell WITH NPROC <- 6, NPIPE <- 2, PIPESIZE <- 1, BUF <- 2, Lines <- ShellLines,
                         Arg <- <<7, 8>>, MaxBusy <- 0

\* One argument fewer than MAXARGS is accepted.
A == INSTANCE ShParse WITH Jobs <- ParserLines, MAXARGS <- 3, job <- pjob, pc <- ppc

M == INSTANCE Umalloc WITH Sizes <- {2, 3, 5}, CORE <- 4, HeapMax <- 14

G == INSTANCE Grep WITH Jobs <- GrepInputs, BUFSIZE <- 5, job <- gjob, buf <- gbuf, out <- gout, pc <- gpc

ASSUME Sizes == P!ProcAssumption /\ Q!ProcAssumption /\ I!IcacheAssumption

NoProc == /\ ptable = 0 /\ nextpid = 0 /\ pcpu = 0 /\ plock = 0 /\ tlock = 0 /\ ticks = 0
          /\ nap = 0
NoSpinlock == /\ scpu = 0 /\ slock = 0 /\ thread = 0
NoConsole == /\ cbuf = 0 /\ cr = 0 /\ cw = 0 /\ ce = 0 /\ reader = 0 /\ cout = 0 /\ pos = 0
NoVm == /\ free = 0 /\ space = 0 /\ sz = 0 /\ job = 0
NoBoot == /\ bpc = 0 /\ next = 0 /\ freelist = 0 /\ use_lock = 0 /\ br = 0 /\ cell = 0
          /\ esp = 0 /\ pages = 0 /\ process = 0
NoFiles == /\ file = 0 /\ fpipe = 0 /\ inode = 0 /\ ofile = 0 /\ fpc = 0 /\ mine = 0 /\ ff = 0
NoIcache == /\ idisk = 0 /\ bitmap = 0 /\ names = 0 /\ ic = 0 /\ busy = 0 /\ dirlock = 0 /\ ipc = 0
            /\ ip = 0 /\ target = 0 /\ ad = 0
NoShell == /\ proc = 0 /\ pipe = 0 /\ printed = 0 /\ line = 0 /\ disturbed = 0
NoShParse == /\ pjob = 0 /\ cmd = 0 /\ nul = 0 /\ ppc = 0
NoUmalloc == /\ ptr = 0 /\ size = 0 /\ freep = 0 /\ started = 0 /\ brk = 0 /\ taken = 0
NoGrep == /\ gjob = 0 /\ rest = 0 /\ gbuf = 0 /\ gout = 0 /\ gpc = 0

Init ==
  \/ /\ \/ part = "proc" /\ P!Init
        \/ part = "family" /\ Q!Init
     /\ NoSpinlock /\ NoConsole /\ NoVm /\ NoBoot /\ NoFiles /\ NoIcache /\ NoShell /\ NoShParse /\ NoUmalloc /\ NoGrep
  \/ /\ part = "spinlock" /\ S!Init
     /\ NoProc /\ NoConsole /\ NoVm /\ NoBoot /\ NoFiles /\ NoIcache /\ NoShell /\ NoShParse /\ NoUmalloc /\ NoGrep
  \/ /\ part = "console" /\ C!Init
     /\ NoProc /\ NoSpinlock /\ NoVm /\ NoBoot /\ NoFiles /\ NoIcache /\ NoShell /\ NoShParse /\ NoUmalloc /\ NoGrep
  \/ /\ part = "vm" /\ V!Init
     /\ NoProc /\ NoSpinlock /\ NoConsole /\ NoBoot /\ NoFiles /\ NoIcache /\ NoShell /\ NoShParse /\ NoUmalloc /\ NoGrep
  \/ /\ part = "boot" /\ B!Init
     /\ NoProc /\ NoSpinlock /\ NoConsole /\ NoVm /\ NoFiles /\ NoIcache /\ NoShell /\ NoShParse /\ NoUmalloc /\ NoGrep
  \/ /\ part = "files" /\ F!Init
     /\ NoProc /\ NoSpinlock /\ NoConsole /\ NoVm /\ NoBoot /\ NoIcache /\ NoShell /\ NoShParse /\ NoUmalloc /\ NoGrep
  \/ /\ part = "icache" /\ I!Init
     /\ NoProc /\ NoSpinlock /\ NoConsole /\ NoVm /\ NoBoot /\ NoFiles /\ NoShell /\ NoShParse /\ NoUmalloc /\ NoGrep
  \/ /\ part = "shell" /\ H!Init
     /\ NoProc /\ NoSpinlock /\ NoConsole /\ NoVm /\ NoBoot /\ NoFiles /\ NoIcache /\ NoShParse /\ NoUmalloc /\ NoGrep
  \/ /\ part = "parse" /\ A!Init
     /\ NoProc /\ NoSpinlock /\ NoConsole /\ NoVm /\ NoBoot /\ NoFiles /\ NoIcache /\ NoShell /\ NoUmalloc /\ NoGrep
  \/ /\ part = "malloc" /\ M!Init
     /\ NoProc /\ NoSpinlock /\ NoConsole /\ NoVm /\ NoBoot /\ NoFiles /\ NoIcache /\ NoShell /\ NoShParse /\ NoGrep
  \/ /\ part = "grep" /\ G!Init
     /\ NoProc /\ NoSpinlock /\ NoConsole /\ NoVm /\ NoBoot /\ NoFiles /\ NoIcache /\ NoShell /\ NoShParse /\ NoUmalloc

\* Processes may all have exited, panicked, or wait for one that did.
Stopped == part \in {"proc", "family", "vm", "icache"} /\ UNCHANGED <<pv, sv, cv, vv, bv, fv, iv, hv, av, mv, gv>>

Next ==
  /\ UNCHANGED part
  /\ \/ part = "proc" /\ P!Next /\ UNCHANGED <<sv, cv, vv, bv, fv, iv, hv, av, mv, gv>>
     \/ part = "family" /\ Q!Next /\ UNCHANGED <<sv, cv, vv, bv, fv, iv, hv, av, mv, gv>>
     \/ part = "spinlock" /\ S!Next /\ UNCHANGED <<pv, cv, vv, bv, fv, iv, hv, av, mv, gv>>
     \/ part = "console" /\ C!Next /\ UNCHANGED <<pv, sv, vv, bv, fv, iv, hv, av, mv, gv>>
     \/ part = "vm" /\ V!Next /\ UNCHANGED <<pv, sv, cv, bv, fv, iv, hv, av, mv, gv>>
     \/ part = "boot" /\ B!Next /\ UNCHANGED <<pv, sv, cv, vv, fv, iv, hv, av, mv, gv>>
     \/ part = "files" /\ F!Next /\ UNCHANGED <<pv, sv, cv, vv, bv, iv, hv, av, mv, gv>>
     \/ part = "icache" /\ I!Next /\ UNCHANGED <<pv, sv, cv, vv, bv, fv, hv, av, mv, gv>>
     \/ part = "shell" /\ H!Next /\ UNCHANGED <<pv, sv, cv, vv, bv, fv, iv, av, mv, gv>>
     \/ part = "parse" /\ A!Next /\ UNCHANGED <<pv, sv, cv, vv, bv, fv, iv, hv, mv, gv>>
     \/ part = "malloc" /\ M!Next /\ UNCHANGED <<pv, sv, cv, vv, bv, fv, iv, hv, av, gv>>
     \/ part = "grep" /\ G!Next /\ UNCHANGED <<pv, sv, cv, vv, bv, fv, iv, hv, av, mv>>
     \/ Stopped

Spec == Init /\ [][Next]_<<part, pv, sv, cv, vv, bv, fv, iv, hv, av, mv, gv>>

-----------------------------------------------------------------------------
\* The process table has its type, and a process runs on at most one CPU, exactly while it
\* is RUNNING (proc.c:338-355).
RunningOnce == /\ part = "proc" => P!TypeOK /\ P!RunningOnce
               /\ part = "family" => Q!TypeOK /\ Q!RunningOnce

\* No child is lost: every started process has a living parent to reap it, and whoever
\* sleeps in wait has children, none of them a zombie (proc.c:259, 307-313).
FamilyKept == /\ part = "proc" => P!ParentLives /\ P!WaiterHasReason
              /\ part = "family" => Q!ParentLives /\ Q!WaiterHasReason

\* Whoever sleeps in sys_sleep still has time to wait (sysproc.c:69-74).
NobodyOversleeps == part = "proc" => P!NobodyOversleeps

\* The interrupt flag follows the thread through switches of CPU, so that none of the
\* panics of acquire, release, popcli and sched is met (spinlock.c, proc.c:361-381).
IntenaFollowsThread == part = "spinlock" => S!IntenaFollowsThread /\ S!NoLockPanic

\* The input ring is a line editor: reads get the lines in order (console.c:193-272).
LinesInOrder == /\ part = "console" => C!Lines!Init
                /\ [][part = "console" => [C!Lines!Next]_(C!Input)]_cv

\* The console never gets stuck: a full ring holds something a reader can take, whoever
\* sleeps on the ring has nothing to read, and the cursor stays on the screen
\* (console.c:150, 218-225, 246-252).
ConsoleUsable == part = "console" => C!FullIsReadable /\ C!SleeperHasNothing /\ C!CursorOnScreen

\* Every page is free or has one place in one address space, also after calls that ran
\* out of memory, and the user pages of a process are those below its size (kalloc.c,
\* vm.c, exec.c, proc.c:197-202).
PagesAccounted == part = "vm" => V!PagesAccounted /\ V!SizeIsMapped

\* No page is handed out twice while the allocator has no lock yet, and so every CPU
\* starts on a stack of its own (kalloc.c:70-93, main.c:85, 92).
PagesGivenOnce == part = "boot" => B!PagesGivenOnce /\ B!OwnStacks

\* What is shared is counted: a file by its descriptors, an inode by its files and
\* directories, and a pipe's end is open exactly while a file stands for it (file.c:51-79,
\* pipe.c:30-74).
ReferencesCounted == part = "files" => F!FilesCounted /\ F!PipeEndsMatch /\ F!InodeRefsMatch

\* Cached inodes belong to those who hold them: counts are the references there are, no
\* inode in use was freed, no two entries use the same addrs, two calls that create a name
\* at once create it once, and the kernel's own checks of inodes hold (fs.c:274-411,
\* ext2fs.c:187-285, sysfile.c:269-307).
InodesOwned == part = "icache" => /\ I!TypeOK /\ I!RefCounts /\ I!UsedIsAllocated
                                  /\ I!AddrsOwned /\ I!CreatedOnce /\ I!AssertionsHold

\* When the shell prompts again, a command has printed what its parts mean, composed by
\* their pipes and in their order (sh.c:84-120).
OutputRight == part = "shell" => H!OutputRight

\* A command that was written down is parsed to that command, and a line that parses is
\* used up to its last word (sh.c:335-493).
ParsesBack == part = "parse" => A!ParsesBack /\ A!WordsKept

\* The heap consists of the free blocks and those in use, the free list is sorted, and no
\* two free blocks touch (umalloc.c:29-43, 75-83).
HeapTiled == part = "malloc" => M!HeapTiled /\ M!ListSorted

\* grep prints exactly the lines that match (grep.c:16-35, 72-106).
GrepRight == part = "grep" => G!GrepRight
=============================================================================
