---------------------------- MODULE BufferCache ----------------------------
(***************************************************************************)
(* bio.c, ide.c and sleeplock.c: processes use disk blocks through a small *)
(* cache of buffers, each with a sleep-lock, over one request queue that   *)
(* serves two IDE channels (device 1 on the primary, 2 on the secondary).  *)
(* A section under bcache.lock, idelock or a sleep-lock's own spin-lock is *)
(* one step; the controller and its interrupts run in between.             *)
(***************************************************************************)
EXTENDS Naturals, Sequences, FiniteSets, SequencesExt

CONSTANTS Procs, Bufs,
          Keys1, Keys2,   \* (dev, blockno) pairs of devices 1 and 2
          Data,
          MaxPinned,      \* bound: blocks the log may keep B_DIRTY at a time
          Spurious,       \* may the secondary channel interrupt on its own?
          Nobody, NoKey,
          Junk            \* what insl reads when no sector is waiting

Keys == Keys1 \cup Keys2
Channels == {0, 1}
Chan(k) == IF k \in Keys1 THEN 0 ELSE 1

\* What the constants must satisfy.
CacheAssumption ==
  /\ Nobody \notin Procs /\ NoKey \notin Keys /\ Junk \notin Data
  /\ Keys1 \cap Keys2 = {} /\ MaxPinned \in Nat /\ Spurious \in BOOLEAN

VARIABLES key, valid, dirty, refcnt, data, \* struct buf
          lock,           \* holder of each buffer's sleep-lock
          lru,            \* bcache list, most recently used first
          queue,          \* idequeue
          disk,           \* contents of the two disks
          cmd,            \* the command each channel is executing
          port,           \* the sector a channel has ready for insl
          irq,            \* interrupts raised and not yet handled
          pc, want, mine  \* of each process: place, block, buffer

bufvars  == <<key, valid, dirty, refcnt, data, lru>>
idevars  == <<queue, disk, cmd, port, irq>>
procvars == <<pc, want, mine>>
vars     == <<bufvars, lock, idevars, procvars>>

NoCmd == [op |-> "none"]

Init ==
  /\ \E order \in [1 .. Cardinality(Bufs) -> Bufs] :
       IsInjective(order) /\ lru = order
  /\ key = [b \in Bufs |-> NoKey]
  /\ valid = [b \in Bufs |-> FALSE] /\ dirty = [b \in Bufs |-> FALSE]
  /\ refcnt = [b \in Bufs |-> 0] /\ data = [b \in Bufs |-> Junk]
  /\ lock = [b \in Bufs |-> Nobody]
  /\ queue = <<>> /\ disk \in [Keys -> Data]
  /\ cmd = [c \in Channels |-> NoCmd] /\ port = [c \in Channels |-> Junk]
  /\ irq = [c \in Channels |-> FALSE]
  /\ pc = [p \in Procs |-> "idle"] /\ want = [p \in Procs |-> NoKey]
  /\ mine = [p \in Procs |-> Head(lru)]

Goto(p, l) == pc' = [pc EXCEPT ![p] = l]

-----------------------------------------------------------------------------
(* bio.c *)

\* Mutants: a B_DIRTY buffer, or one somebody waits for, is recycled.
Recyclable_Dirty(b) == refcnt[b] = 0
Recyclable_Awaited(b) == lock[b] = Nobody /\ ~dirty[b]

Recyclable(b) == refcnt[b] = 0 /\ ~dirty[b]

\* The scan from the tail of the list for a buffer to recycle.
Victim == lru[CHOOSE i \in DOMAIN lru :
                /\ Recyclable(lru[i])
                /\ \A j \in DOMAIN lru : j > i => ~Recyclable(lru[j])]

\* bget up to the release of bcache.lock.
bget(p, k) ==
  /\ pc[p] = "idle"
  /\ want' = [want EXCEPT ![p] = k]
  /\ \/ \E b \in Bufs :
          /\ key[b] = k
          /\ refcnt' = [refcnt EXCEPT ![b] = @ + 1]
          /\ mine' = [mine EXCEPT ![p] = b]
          /\ Goto(p, "lock")
          /\ UNCHANGED <<key, valid, dirty>>
     \/ /\ \A b \in Bufs : key[b] # k
        /\ \E b \in Bufs : Recyclable(b)
        /\ key' = [key EXCEPT ![Victim] = k]
        /\ valid' = [valid EXCEPT ![Victim] = FALSE]
        /\ dirty' = [dirty EXCEPT ![Victim] = FALSE]
        /\ refcnt' = [refcnt EXCEPT ![Victim] = 1]
        /\ mine' = [mine EXCEPT ![p] = Victim]
        /\ Goto(p, "lock")
     \/ /\ \A b \in Bufs : key[b] # k /\ ~Recyclable(b)
        /\ Goto(p, "panic")
        /\ UNCHANGED <<key, valid, dirty, refcnt, mine>>
  /\ UNCHANGED <<data, lru, lock, idevars>>

\* One pass of acquiresleep; with the lock, bread looks at B_VALID.
acquiresleep(p) ==
  /\ pc[p] \in {"lock", "lockwoken"}
  /\ IF lock[mine[p]] # Nobody
     THEN Goto(p, "lockasleep") /\ UNCHANGED lock
     ELSE /\ lock' = [lock EXCEPT ![mine[p]] = p]
          /\ Goto(p, IF valid[mine[p]] THEN "have" ELSE "iderw")
  /\ UNCHANGED <<bufvars, idevars, want, mine>>

\* The holder changes the data and calls bwrite.
bwrite(p, d) ==
  /\ pc[p] = "have"
  /\ data' = [data EXCEPT ![mine[p]] = d]
  /\ dirty' = [dirty EXCEPT ![mine[p]] = TRUE]
  /\ Goto(p, "iderw")
  /\ UNCHANGED <<key, valid, refcnt, lru, lock, idevars, want, mine>>

\* The holder changes the data and calls log_write, which only sets B_DIRTY;
\* a later bwrite by commit() clears it.
log_write(p, d) ==
  /\ pc[p] = "have"
  /\ Cardinality({b \in Bufs : dirty[b]} \cup {mine[p]}) <= MaxPinned
  /\ data' = [data EXCEPT ![mine[p]] = d]
  /\ dirty' = [dirty EXCEPT ![mine[p]] = TRUE]
  /\ UNCHANGED <<key, valid, refcnt, lru, lock, idevars, procvars>>

\* Mutant: the lock is released without a wakeup.
releasesleep_NoWakeup(p) ==
  /\ pc[p] = "have" /\ Goto(p, "put")
  /\ lock' = [lock EXCEPT ![mine[p]] = Nobody]
  /\ UNCHANGED <<bufvars, idevars, want, mine>>

\* brelse: releasesleep first, the reference count in a second critical section.
releasesleep(p) ==
  /\ pc[p] = "have"
  /\ lock' = [lock EXCEPT ![mine[p]] = Nobody]
  /\ pc' = [q \in Procs |->
              IF q = p THEN "put"
              ELSE IF pc[q] = "lockasleep" /\ mine[q] = mine[p] THEN "lockwoken"
              ELSE pc[q]]
  /\ UNCHANGED <<bufvars, idevars, want, mine>>

brelse(p) ==
  /\ pc[p] = "put" /\ Goto(p, "idle")
  /\ refcnt' = [refcnt EXCEPT ![mine[p]] = @ - 1]
  /\ lru' = IF refcnt[mine[p]] = 1
            THEN <<mine[p]>> \o SelectSeq(lru, LAMBDA b : b # mine[p])
            ELSE lru
  /\ UNCHANGED <<key, valid, dirty, data, lock, idevars, want, mine>>

-----------------------------------------------------------------------------
(* ide.c *)

Command(b) == IF dirty[b] THEN [op |-> "write", key |-> key[b], data |-> data[b]]
                          ELSE [op |-> "read", key |-> key[b]]

\* Issue b's command on its channel; idewait spins until the drive is free.
idestart(b) ==
  LET c == Chan(key[b]) IN
  /\ cmd[c] = NoCmd
  /\ cmd' = [cmd EXCEPT ![c] = Command(b)]

\* iderw up to its first sleep.
iderw(p) ==
  /\ pc[p] = "iderw" /\ Goto(p, "io")
  /\ queue' = Append(queue, mine[p])
  /\ IF queue = <<>> THEN idestart(mine[p]) ELSE UNCHANGED cmd
  /\ UNCHANGED <<bufvars, lock, disk, port, irq, want, mine>>

\* The while loop of iderw, when the process runs again.
iderw_wake(p) ==
  /\ pc[p] = "iowoken"
  /\ Goto(p, IF valid[mine[p]] /\ ~dirty[mine[p]] THEN "have" ELSE "io")
  /\ UNCHANGED <<bufvars, lock, idevars, want, mine>>

\* External: the drive on channel c finishes its command and interrupts.
DiskDone(c) ==
  /\ cmd[c] # NoCmd
  /\ disk' = IF cmd[c].op = "write" THEN [disk EXCEPT ![cmd[c].key] = cmd[c].data] ELSE disk
  /\ port' = [port EXCEPT ![c] = IF cmd[c].op = "read" THEN disk[cmd[c].key] ELSE Junk]
  /\ cmd' = [cmd EXCEPT ![c] = NoCmd]
  /\ irq' = [irq EXCEPT ![c] = TRUE]
  /\ UNCHANGED <<bufvars, lock, queue, procvars>>

\* External: an interrupt of the secondary channel that no command caused.
SpuriousIrq ==
  /\ Spurious /\ ~irq[1]
  /\ irq' = [irq EXCEPT ![1] = TRUE]
  /\ UNCHANGED <<bufvars, lock, queue, disk, cmd, port, procvars>>

\* Mutant: the next request of the queue is not started.
ideintr_NoStart(c) ==
  /\ irq[c] /\ irq' = [irq EXCEPT ![c] = FALSE]
  /\ queue # <<>>
  /\ LET b == Head(queue) IN
     /\ queue' = Tail(queue)
     /\ data' = IF dirty[b] THEN data ELSE [data EXCEPT ![b] = port[c]]
     /\ port' = IF dirty[b] THEN port ELSE [port EXCEPT ![c] = Junk]
     /\ valid' = [valid EXCEPT ![b] = TRUE]
     /\ dirty' = [dirty EXCEPT ![b] = FALSE]
     /\ pc' = [q \in Procs |-> IF pc[q] = "io" /\ mine[q] = b THEN "iowoken" ELSE pc[q]]
  /\ UNCHANGED <<key, refcnt, lru, cmd, lock, disk, want, mine>>

\* ideintr(flag): whichever channel interrupts, the head of the queue is done;
\* a read takes its data from the interrupting channel's port.
ideintr(c) ==
  /\ irq[c] /\ irq' = [irq EXCEPT ![c] = FALSE]
  /\ IF queue = <<>>
     THEN UNCHANGED <<bufvars, queue, cmd, port, pc>>
     ELSE LET b == Head(queue) IN
          /\ queue' = Tail(queue)
          /\ IF dirty[b]
             THEN UNCHANGED <<data, port>>
             ELSE /\ cmd[c] = NoCmd
                  /\ data' = [data EXCEPT ![b] = port[c]]
                  /\ port' = [port EXCEPT ![c] = Junk]
          /\ valid' = [valid EXCEPT ![b] = TRUE]
          /\ dirty' = [dirty EXCEPT ![b] = FALSE]
          /\ pc' = [q \in Procs |-> IF pc[q] = "io" /\ mine[q] = b THEN "iowoken" ELSE pc[q]]
          /\ IF queue' # <<>> THEN idestart(Head(queue')) ELSE UNCHANGED cmd
          /\ UNCHANGED <<key, refcnt, lru>>
  /\ UNCHANGED <<lock, disk, want, mine>>

-----------------------------------------------------------------------------
Use(p) ==
  \/ \E k \in Keys : bget(p, k)
  \/ \E d \in Data : bwrite(p, d) \/ log_write(p, d)
  \/ releasesleep(p)

Run(p) == acquiresleep(p) \/ iderw(p) \/ iderw_wake(p) \/ brelse(p)

Hardware(c) == DiskDone(c) \/ ideintr(c)

Next == (\E p \in Procs : Use(p) \/ Run(p)) \/ (\E c \in Channels : Hardware(c)) \/ SpuriousIrq

Spec == Init /\ [][Next]_vars

\* A process inside bget, iderw or brelse that can run does run, the drive
\* finishes its commands and interrupts are delivered.  What a holder does
\* with its buffer, and for how long, is its own business.
FairSpec ==
  /\ Spec
  /\ \A p \in Procs : WF_vars(Run(p))
  /\ \A c \in Channels : WF_vars(DiskDone(c)) /\ WF_vars(ideintr(c))

-----------------------------------------------------------------------------
Locking == {"lock", "lockasleep", "lockwoken"}
Holding == {"iderw", "io", "iowoken", "have"}

\* The buffers, the queue, the drives and the processes keep their types.
TypeOK ==
  /\ key \in [Bufs -> Keys \cup {NoKey}]
  /\ valid \in [Bufs -> BOOLEAN] /\ dirty \in [Bufs -> BOOLEAN]
  /\ refcnt \in [Bufs -> Nat] /\ data \in [Bufs -> Data \cup {Junk}]
  /\ lock \in [Bufs -> Procs \cup {Nobody}]
  /\ lru \in Seq(Bufs) /\ queue \in Seq(Bufs)
  /\ disk \in [Keys -> Data]
  /\ \A c \in Channels : cmd[c].op \in {"none", "read", "write"}
  /\ port \in [Channels -> Data \cup {Junk}] /\ irq \in [Channels -> BOOLEAN]
  /\ pc \in [Procs -> Locking \cup Holding \cup {"idle", "put", "panic"}]
  /\ want \in [Procs -> Keys \cup {NoKey}] /\ mine \in [Procs -> Bufs]

\* The content of block k: its buffer if that has it, else the disk.
View(k) ==
  IF \E b \in Bufs : key[b] = k /\ (valid[b] \/ dirty[b])
  THEN data[CHOOSE b \in Bufs : key[b] = k /\ (valid[b] \/ dirty[b])]
  ELSE disk[k]

\* The process that holds the sleep-lock of block k's buffer.
Owner(k) ==
  IF \E b \in Bufs : key[b] = k /\ lock[b] # Nobody
  THEN lock[CHOOSE b \in Bufs : key[b] = k /\ lock[b] # Nobody]
  ELSE Nobody

Store == INSTANCE BlockStore
           WITH val <- [k \in Keys |-> View(k)], owner <- [k \in Keys |-> Owner(k)]
Registers == <<[k \in Keys |-> View(k)], [k \in Keys |-> Owner(k)]>>

\* Each block behaves as one register with at most one user, through caching,
\* recycling, disk reads and disk writes in any order: no update is lost and no
\* stale copy is ever read back (bio.c:1-19, bget, bwrite, brelse, ideintr).
BlocksAreRegisters == Store!Spec

\* A process that waits for, holds or is letting go of a buffer never finds it
\* rebound to another block, although bget drops bcache.lock before it sleeps
\* for the buffer and brelse gives up the sleep-lock before the reference; and
\* what bread returns is valid and locked by the caller (bio.c:58-141).
HoldsItsBlock ==
  \A p \in Procs :
    /\ pc[p] \in Locking \cup Holding \cup {"put"} => key[mine[p]] = want[p]
    /\ pc[p] \in Holding => lock[mine[p]] = p
    /\ pc[p] = "have" => valid[mine[p]]

\* B_VALID on a clean buffer means that the buffer has the block's content
\* (bio.c:17-18, ideintr).
ValidMatchesDisk ==
  \A b \in Bufs : valid[b] /\ ~dirty[b] => data[b] = disk[key[b]]

\* The drives work for the head of the queue and for nothing else: one command
\* or one undelivered interrupt, on the head's channel, and none when the queue
\* is empty; whoever is queued waits in iderw (ide.c:27-29, 126-197).
DriveServesHead ==
  /\ \A c \in Channels :
       IF queue # <<>> /\ c = Chan(key[Head(queue)])
       THEN cmd[c] = IF irq[c] THEN NoCmd ELSE Command(Head(queue))
       ELSE cmd[c] = NoCmd /\ ~irq[c]
  /\ \A i \in DOMAIN queue : \E p \in Procs : pc[p] = "io" /\ mine[p] = queue[i]
  /\ IsInjective(queue)

\* No wakeup is lost: who sleeps for a sleep-lock finds it taken, who sleeps
\* for a transfer is in the queue (sleeplock.c:22-42, iderw, ideintr).
SleepersAwaitSomething ==
  \A p \in Procs :
    /\ pc[p] = "lockasleep" => lock[mine[p]] # Nobody
    /\ pc[p] = "io" => \E i \in DOMAIN queue : queue[i] = mine[p]

\* A transfer finishes, whatever is queued before it and on whichever channel
\* (iderw, ideintr).
TransferFinishes == \A p \in Procs : pc[p] \in {"iderw", "io"} ~> pc[p] = "have"
=============================================================================
