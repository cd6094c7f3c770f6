------------------------------- MODULE MCLive -------------------------------
(***************************************************************************)
(* Small instances of the parts with something that must happen.  A        *)
(* behaviour is one of the part chosen in its initial state; the variables *)
(* of the others are 0, and the fairness assumed of a part is that of its  *)
(* FairSpec.                                                               *)
(***************************************************************************)
EXTENDS Naturals, Sequences, MCLines

CONSTANTS p1, p2, p3, b1, b2, k1, k2, d1, Nobody, NoKey, Junk, NoBuf, Torn

VARIABLES part,
          home, logblk, hdr, cache, ldirty, lh, outstanding, committing, sys, op, tail, wrote,      \* Log
          key, valid, dirty, refcnt, data, lock, lru, queue, disk, cmd, port, irq, pc, want, mine,  \* BufferCache
          ring, nread, nwrite, readopen, writeopen, ilock, killed, ipc, left, got,                  \* Pipe
          ptable, nextpid, cpu, plock, tlock, ticks, nap,                                           \* Proc
          proc, pipe, printed, line, disturbed                                                      \* Shell

lv == <<home, logblk, hdr, cache, ldirty, lh, outstanding, committing, sys, op, tail, wrote>>
cv == <<key, valid, dirty, refcnt, data, lock, lru, queue, disk, cmd, port, irq, pc, want, mine>>
iv == <<ring, nread, nwrite, readopen, writeopen, ilock, killed, ipc, left, got>>
pv == <<ptable, nextpid, cpu, plock, tlock, ticks, nap>>
hv == <<proc, pipe, printed, line, disturbed>>

\* Three processes, a log with room for one call at a time: two can be asleep.
L == INSTANCE Log WITH Ops <- {p1, p2, p3}, Blocks <- {b1}, Data <- {d1}, MAXOPBLOCKS <- 3,
                       OpBlocks <- 1, LOGSIZE <- 3, Nlog <- 3, dirty <- ldirty

\* Two processes and two buffers, for blocks on both channels.
C == INSTANCE BufferCache WITH Procs <- {p1, p2}, Bufs <- {b1, b2}, Keys1 <- {k1}, Keys2 <- {k2},
                               Data <- {d1}, MaxPinned <- 1, Spurious <- FALSE

\* Two writers and a reader at a ring of one byte, which a call fills or empties.
I == INSTANCE Pipe WITH Writers <- {p1, p2}, Readers <- {p3}, Byte <- {d1}, PIPESIZE <- 1, Word <- 2,
                        MaxN <- 1, data <- ring, lock <- ilock, pc <- ipc

\* One CPU, so that processes wait for it; init, a child and the child's child.
P == INSTANCE Proc WITH NPROC <- 3, NCPU <- 1, MaxPid <- 3, Word <- 2, Naps <- {1}, Victims <- {2}

\* Pipes of one byte, and too few pipes and processes for the longest line.
H == INSTANCE Shell WITH NPROC <- 6, NPIPE <- 2, PIPESIZE <- 1, BUF <- 2, Lines <- ShellLines,
                         Arg <- <<7, 8>>, MaxBusy <- 0

ASSUME Sizes == C!CacheAssumption /\ I!PipeAssumption /\ P!ProcAssumption

NoLog == /\ home = 0 /\ logblk = 0 /\ hdr = 0 /\ cache = 0 /\ ldirty = 0 /\ lh = 0
         /\ outstanding = 0 /\ committing = 0 /\ sys = 0 /\ op = 0 /\ tail = 0 /\ wrote = 0
NoBufferCache == /\ key = 0 /\ valid = 0 /\ dirty = 0 /\ refcnt = 0 /\ data = 0 /\ lock = 0
                 /\ lru = 0 /\ queue = 0 /\ disk = 0 /\ cmd = 0 /\ port = 0 /\ irq = 0
                 /\ pc = 0 /\ want = 0 /\ mine = 0
NoPipe == /\ ring = 0 /\ nread = 0 /\ nwrite = 0 /\ readopen = 0 /\ writeopen = 0 /\ ilock = 0
          /\ killed = 0 /\ ipc = 0 /\ left = 0 /\ got = 0
NoProc == /\ ptable = 0 /\ nextpid = 0 /\ cpu = 0 /\ plock = 0 /\ tlock = 0 /\ ticks = 0
          /\ nap = 0
NoShell == /\ proc = 0 /\ pipe = 0 /\ printed = 0 /\ line = 0 /\ disturbed = 0

Init ==
  \/ part = "log" /\ L!Init /\ NoBufferCache /\ NoPipe /\ NoProc /\ NoShell
  \/ part = "cache" /\ C!Init /\ NoLog /\ NoPipe /\ NoProc /\ NoShell
  \/ part = "pipe" /\ I!Init /\ NoLog /\ NoBufferCache /\ NoProc /\ NoShell
  \/ part = "proc" /\ P!Init /\ NoLog /\ NoBufferCache /\ NoPipe /\ NoShell
  \/ part = "shell" /\ H!Init /\ NoLog /\ NoBufferCache /\ NoPipe /\ NoProc

Next ==
  /\ UNCHANGED part
  /\ \/ part = "log" /\ L!Next /\ UNCHANGED <<cv, iv, pv, hv>>
     \/ part = "cache" /\ C!Next /\ UNCHANGED <<lv, iv, pv, hv>>
     \/ part = "pipe" /\ I!Next /\ UNCHANGED <<lv, cv, pv, hv>>
     \/ part = "proc" /\ P!Next /\ UNCHANGED <<lv, cv, iv, hv>>
     \/ part = "shell" /\ H!Next /\ UNCHANGED <<lv, cv, iv, pv>>

\* Runnable processes run, a call makes finitely many writes, crashes stop.
LogFairness ==
  /\ \A p \in {p1, p2, p3} :
       /\ WF_lv(part = "log" /\ L!begin_op(p) /\ op[p] = "woken")
       /\ WF_lv(part = "log" /\ L!log_write(p, b1, d1))
       /\ []<>(part = "log" => op[p] \notin {"in", "logging"})
       /\ WF_lv(part = "log" /\ L!commit(p))
  /\ WF_lv(part = "log" /\ \E p \in {p1, p2, p3} : L!recover_from_log(p))
  /\ <>[][part = "log" => ~L!Crash]_lv

\* Processes run, the drives finish commands, interrupts are delivered.
CacheFairness ==
  /\ \A p \in {p1, p2} : WF_cv(part = "cache" /\ C!Run(p))
  /\ \A c \in {0, 1} : WF_cv(part = "cache" /\ C!DiskDone(c)) /\ WF_cv(part = "cache" /\ C!ideintr(c))

PipeFairness == \A p \in {p1, p2, p3} : WF_iv(part = "pipe" /\ I!Run(p))

\* The scheduler's scan reaches everyone, the clock ticks, a process in a call goes
\* on, a killed one ends at its next trap, init waits.
ProcFairness ==
  /\ SF_pv(part = "proc" /\ P!scheduler(1)) /\ WF_pv(part = "proc" /\ P!resume(1))
  /\ WF_pv(part = "proc" /\ P!yield(1))
  /\ WF_pv(part = "proc" /\ P!clock_tick(1)) /\ WF_pv(part = "proc" /\ P!clock_wakeup(1))
  /\ \A p \in 1..3 : SF_pv(part = "proc" /\ P!Proceed(1, p))
  /\ SF_pv(part = "proc" /\ P!wait(1, 1))

ShellFairness == \A s \in 1..6 : WF_hv(part = "shell" /\ H!Step(s))

Spec == /\ Init /\ [][Next]_<<part, lv, cv, iv, pv, hv>>
        /\ LogFairness /\ CacheFairness /\ PipeFairness /\ ProcFairness /\ ShellFairness

-----------------------------------------------------------------------------
\* A commit that was started finishes, and a process asleep in begin_op is woken, unless
\* a crash ends them (log.c:143-174, 192-202). The processes are interchangeable, so it
\* is enough to look at one.
SleeperWakes ==
  /\ part = "log" /\ committing ~> part = "log" /\ ~committing
  /\ part = "log" /\ op[p1] = "asleep" ~> part = "log" /\ op[p1] # "asleep"

\* A transfer finishes, whatever is queued before it (ide.c:100-167).
\* The processes are interchangeable.
TransferFinishes ==
  part = "cache" /\ pc[p1] \in {"iderw", "io"} ~> part = "cache" /\ pc[p1] = "have"

\* Once the other end of a pipe is closed every call returns (pipe.c:59-75, 86, 106).
\* p3 reads; the writers are interchangeable.
CloseReleases == \A p \in {p1, p3} :
  part = "pipe" /\ (IF p = p3 THEN ~writeopen ELSE ~readopen) ~> part = "pipe" /\ ipc[p] \in {"out", "dead"}

\* A killed process ends, wherever the kill found it (proc.c:480-501, trap.c:40-45).
KilledEnds == \A p \in 2..3 :
  part = "proc" /\ ptable[p].killed /\ ptable[p].state \notin {"UNUSED", "EMBRYO"}
     ~> part = "proc" /\ ptable[p].state \in {"ZOMBIE", "UNUSED"}

\* A zombie that init has to reap is reaped unless init is killed (proc.c:258-265).
OrphansReaped == \A p \in 2..3 :
  part = "proc" /\ ptable[p].state = "ZOMBIE" /\ ptable[p].parent = 1
     ~> part = "proc" /\ (ptable[p].state = "UNUSED" \/ P!At(1) = "panic" \/ ptable[1].killed)

\* Every process of a command ends and the shell prompts again (sh.c:99-117).
JobsEnd == []<>(part = "shell" => H!Others = {} /\ H!Running(1, "getcmd"))
=============================================================================
