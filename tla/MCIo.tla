-------------------------------- MODULE MCIo --------------------------------
(***************************************************************************)
(* Small instances of the buffer cache with its disks, and of the pipe.  A *)
(* behaviour is one of the part chosen in its initial state; the variables *)
(* of the others are 0.  Processes, buffers and data are never ordered,    *)
(* and serve all parts, so they are symmetric.                             *)
(***************************************************************************)
EXTENDS Naturals, Sequences, TLC

CONSTANTS p1, p2, r1, r2, w1, s1, b1, b2, k1, k2, k3, d1, d2, Nobody, NoKey, Junk

VARIABLES part,
          key, valid, dirty, refcnt, data, lock, lru, queue, disk, cmd, port, irq, pc, want, mine,
          ring, nread, nwrite, readopen, writeopen, plock, killed, ppc, left, got

cv == <<key, valid, dirty, refcnt, data, lock, lru, queue, disk, cmd, port, irq, pc, want, mine>>
iv == <<ring, nread, nwrite, readopen, writeopen, plock, killed, ppc, left, got>>

\* More blocks than buffers, and blocks on both channels.
C == INSTANCE BufferCache WITH Procs <- {p1, p2}, Bufs <- {b1, b2}, Keys1 <- {k1, k3}, Keys2 <- {k2},
                               Data <- {d1, d2}, MaxPinned <- 1, Spurious <- FALSE

\* With interrupts of the secondary channel that no command caused, and no log.
N == INSTANCE BufferCache WITH Procs <- {p1, p2}, Bufs <- {b1, b2}, Keys1 <- {k1, k3}, Keys2 <- {k2},
                               Data <- {d1}, MaxPinned <- 0, Spurious <- TRUE

\* A ring of two bytes, and counters that wrap at 4: different bytes, to see their order.
I == INSTANCE Pipe WITH Writers <- {w1}, Readers <- {s1}, Byte <- {d1, d2}, PIPESIZE <- 2,
                        Word <- 4, MaxN <- 2, data <- ring, lock <- plock, pc <- ppc

\* Two writers and two readers, to see who sleeps.
J == INSTANCE Pipe WITH Writers <- {p1, p2}, Readers <- {r1, r2}, Byte <- {k1}, PIPESIZE <- 2,
                        Word <- 4, MaxN <- 2, data <- ring, lock <- plock, pc <- ppc

ASSUME Sizes == /\ C!CacheAssumption /\ N!CacheAssumption
                /\ I!PipeAssumption /\ J!PipeAssumption

MCSymmetry == Permutations({p1, p2}) \cup Permutations({r1, r2})
              \cup Permutations({b1, b2}) \cup Permutations({d1, d2})

NoCache == /\ key = 0 /\ valid = 0 /\ dirty = 0 /\ refcnt = 0 /\ data = 0 /\ lock = 0 /\ lru = 0
           /\ queue = 0 /\ disk = 0 /\ cmd = 0 /\ port = 0 /\ irq = 0 /\ pc = 0 /\ want = 0 /\ mine = 0
NoPipe == /\ ring = 0 /\ nread = 0 /\ nwrite = 0 /\ readopen = 0 /\ writeopen = 0 /\ plock = 0
          /\ killed = 0 /\ ppc = 0 /\ left = 0 /\ got = 0

Init == \/ part = "cache" /\ C!Init /\ NoPipe
        \/ part = "noise" /\ N!Init /\ NoPipe
        \/ part = "pipe" /\ I!Init /\ NoCache
        \/ part = "crowd" /\ J!Init /\ NoCache

\* Everybody may have left the pipe.
Stopped == part \in {"pipe", "crowd"} /\ UNCHANGED <<cv, iv>>

Next == /\ UNCHANGED part
        /\ \/ part = "cache" /\ C!Next /\ UNCHANGED iv
           \/ part = "noise" /\ N!Next /\ UNCHANGED iv
           \/ part = "pipe" /\ I!Next /\ UNCHANGED cv
           \/ part = "crowd" /\ J!Next /\ UNCHANGED cv
           \/ Stopped

Spec == Init /\ [][Next]_<<part, cv, iv>>

-----------------------------------------------------------------------------
\* Whoever has locked a buffer for a block has that block in it (bio.c:67-74), with
\* spurious interrupts too. Without them, the cache has its type, a valid buffer nobody
\* has changed agrees with the disk (bio.c:17), and a drive works for the head of the
\* queue (ide.c:139-157).
HoldsItsBlock == /\ part = "cache" => /\ C!TypeOK /\ C!HoldsItsBlock
                                      /\ C!ValidMatchesDisk /\ C!DriveServesHead
                 /\ part = "noise" => N!HoldsItsBlock

\* Whoever sleeps waits for a holder or for the disk (sleeplock.c:26, ide.c:192), with
\* spurious interrupts too.
SleepersAwaitSomething == /\ part = "cache" => C!SleepersAwaitSomething
                          /\ part = "noise" => N!SleepersAwaitSomething

\* Every block is a register with one user at a time: Store!Spec of BufferCache, for
\* the instance without spurious interrupts (bio.c, ide.c).
BlocksAreRegisters == /\ part = "cache" => C!Store!Init
                      /\ [][part = "cache" => [C!Store!Next]_(C!Registers)]_cv

\* A pipe has its type, and its readers and writers never sleep on each other
\* (pipe.c:65, 68, 90, 95, 118).
SleepIsJustified == /\ part = "pipe" => I!TypeOK /\ I!SleepIsJustified
                    /\ part = "crowd" => J!TypeOK /\ J!SleepIsJustified

\* A pipe is a bounded queue of bytes, through wraparound (pipe.c:85, 93, 113-117).
IsFifo == /\ part = "pipe" => I!Fifo!Init
          /\ part = "crowd" => J!Fifo!Init
          /\ [][/\ part = "pipe" => [I!Fifo!Next]_(I!Queue)
                /\ part = "crowd" => [J!Fifo!Next]_(J!Queue)]_iv
=============================================================================
