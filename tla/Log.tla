-------------------------------- MODULE Log --------------------------------
(***************************************************************************)
(* log.c: the redo log that makes a group of file-system calls atomic with *)
(* respect to crashes.  A process calls begin_op, log_write any number of  *)
(* times, and end_op; the last process to leave commits for everyone.      *)
(*                                                                         *)
(* A disk write is one step (iderw sleeps until the interrupt).  A crash   *)
(* loses memory and may tear the data block being written; the header is   *)
(* within one sector (4 + 4*LOGSIZE bytes) and is written whole or not.    *)
(***************************************************************************)
EXTENDS Naturals, Sequences, FiniteSets

CONSTANTS Ops,          \* processes that make file-system calls
          Blocks,       \* home block numbers of the logged device
          Data,         \* block contents
          MAXOPBLOCKS,  \* param.h: max # of blocks any FS op writes
          OpBlocks,     \* the number of distinct blocks a call really writes
          LOGSIZE,      \* param.h: max data blocks in on-disk log
          Nlog,         \* log.size = sb.nlog: header block and data blocks
          NoBuf,        \* the block is not in the buffer cache
          Torn          \* content of a block whose write a crash cut short

ASSUME LogAssumption ==
  /\ MAXOPBLOCKS \in Nat \ {0} /\ LOGSIZE \in Nat /\ Nlog \in Nat \ {0}
  /\ MAXOPBLOCKS <= LOGSIZE /\ OpBlocks \in Nat \ {0}
  /\ IsFiniteSet(Ops)
  /\ NoBuf \notin Data /\ Torn \notin Data /\ NoBuf # Torn

VARIABLES home,         \* disk: the home location of each block
          logblk,       \* disk: log blocks log.start+1 ..
          hdr,          \* disk: header block, block[0..n-1] as a sequence
          cache, dirty, \* buffer cache contents, and the B_DIRTY buffers
          lh,           \* log.lh
          outstanding, committing,
          sys,          \* is the machine down, recovering or up?
          op,           \* where each process is
          tail,         \* its local in write_log / install_trans
          wrote         \* blocks its current call has written

disk == <<home, logblk, hdr>>
mem  == <<cache, dirty, lh, outstanding, committing>>
vars == <<disk, mem, sys, op, tail, wrote>>

LogIndex == 1 .. (Nlog - 1)

Init ==
  /\ home \in [Blocks -> Data]
  /\ \E d \in Data : logblk = [i \in LogIndex |-> d]
  /\ hdr = <<>>
  /\ cache = [b \in Blocks |-> NoBuf] /\ dirty = {}
  /\ lh = <<>> /\ outstanding = 0 /\ committing = FALSE
  /\ sys = "down"
  /\ op = [p \in Ops |-> "out"]
  /\ tail = [p \in Ops |-> 0]
  /\ wrote = [p \in Ops |-> {}]

-----------------------------------------------------------------------------
At(p, pc) == op[p] = pc
Goto(p, pc) == op' = [op EXCEPT ![p] = pc]

\* bread: the cached copy, or the disk block.
Read(b) == IF cache[b] = NoBuf THEN home[b] ELSE cache[b]

\* bget recycles a buffer only if it is unused and not B_DIRTY.
Evict(b) ==
  /\ cache[b] # NoBuf /\ b \notin dirty
  /\ cache' = [cache EXCEPT ![b] = NoBuf]
  /\ UNCHANGED <<disk, dirty, lh, outstanding, committing, sys, op, tail, wrote>>

\* wakeup(&log) together with p's own move to pc.
WakeupAndGoto(p, pc) ==
  op' = [q \in Ops |-> IF q = p THEN pc
                       ELSE IF op[q] = "asleep" THEN "woken" ELSE op[q]]

\* Mutants: a forgotten `committing`; room kept for one call, not for those in progress.
MustWait_IgnoreCommit == Len(lh) + (outstanding + 1) * MAXOPBLOCKS > LOGSIZE

MustWait_OneCall ==
  \/ committing
  \/ Len(lh) + MAXOPBLOCKS > LOGSIZE

MustWait ==
  \/ committing
  \/ Len(lh) + (outstanding + 1) * MAXOPBLOCKS > LOGSIZE

\* Mutant: the call is let in without being counted.
begin_op_NoCount(p) ==
  /\ sys = "up" /\ op[p] \in {"out", "woken"}
  /\ Goto(p, IF MustWait THEN "asleep" ELSE "in")
  /\ wrote' = IF MustWait THEN wrote ELSE [wrote EXCEPT ![p] = {}]
  /\ UNCHANGED <<disk, mem, sys, tail>>

\* One pass of the loop in begin_op, under log.lock.
begin_op(p) ==
  /\ sys = "up" /\ op[p] \in {"out", "woken"}
  /\ IF MustWait
     THEN Goto(p, "asleep") /\ UNCHANGED <<outstanding, wrote>>
     ELSE /\ Goto(p, "in")
          /\ outstanding' = outstanding + 1
          /\ wrote' = [wrote EXCEPT ![p] = {}]
  /\ UNCHANGED <<disk, cache, dirty, lh, committing, sys, tail>>

Logged(b) == \E i \in 1 .. Len(lh) : lh[i] = b

TooBig == Len(lh) >= LOGSIZE \/ Len(lh) >= Nlog - 1

\* The first half of log_write: its tests are made before taking log.lock, and
\* the one for a full log whether or not the block is already logged.  A panic
\* stops this process only.
log_test(p) ==
  /\ At(p, "in")
  /\ Goto(p, IF TooBig \/ outstanding < 1 THEN "panic" ELSE "logging")
  /\ UNCHANGED <<disk, mem, sys, tail, wrote>>

\* Mutant: the buffer is not pinned.
log_write_NoPin(p, b, d) ==
  /\ At(p, "logging") /\ Goto(p, "in")
  /\ b \in wrote[p] \/ Cardinality(wrote[p]) < OpBlocks
  /\ lh' = IF Logged(b) THEN lh ELSE Append(lh, b)
  /\ cache' = [cache EXCEPT ![b] = d]
  /\ wrote' = [wrote EXCEPT ![p] = @ \cup {b}]
  /\ UNCHANGED <<disk, dirty, outstanding, committing, sys, tail>>

\* The rest of log_write, under log.lock, for the buffer p has changed.  The
\* buffer is locked by p, so its new content shows no earlier than here.
log_write(p, b, d) ==
  /\ At(p, "logging") /\ Goto(p, "in")
  /\ b \in wrote[p] \/ Cardinality(wrote[p]) < OpBlocks
  /\ lh' = IF Logged(b) THEN lh ELSE Append(lh, b)
  /\ cache' = [cache EXCEPT ![b] = d]
  /\ dirty' = dirty \cup {b}
  /\ wrote' = [wrote EXCEPT ![p] = @ \cup {b}]
  /\ UNCHANGED <<disk, outstanding, committing, sys, tail>>

\* end_op up to the release of log.lock; commit() with nothing logged is a no-op.
end_op(p) ==
  /\ At(p, "in")
  /\ outstanding' = outstanding - 1
  /\ committing' = (committing \/ outstanding = 1)
  /\ IF ~committing /\ outstanding # 1
     THEN WakeupAndGoto(p, "out")
     ELSE Goto(p, IF committing THEN "panic" ELSE IF lh = <<>> THEN "finish" ELSE "write_log")
  /\ tail' = [tail EXCEPT ![p] = 0]
  /\ UNCHANGED <<disk, cache, dirty, lh, sys, wrote>>

-----------------------------------------------------------------------------
\* Mutant: the loop leaves out the last of several entries.
LoopStep_Short(p, pc, next) ==
  /\ At(p, pc)
  /\ Goto(p, IF tail[p] + 2 >= Len(lh) THEN next ELSE pc)
  /\ tail' = [tail EXCEPT ![p] = IF @ + 2 >= Len(lh) THEN 0 ELSE @ + 1]

\* One iteration of a loop `for (tail = 0; tail < log.lh.n; tail++)` at pc.
LoopStep(p, pc, next) ==
  /\ At(p, pc)
  /\ Goto(p, IF tail[p] + 1 >= Len(lh) THEN next ELSE pc)
  /\ tail' = [tail EXCEPT ![p] = IF @ + 1 >= Len(lh) THEN 0 ELSE @ + 1]

write_log(p) ==
  LET i == tail[p] + 1 IN
  /\ LoopStep(p, "write_log", "write_head")
  /\ logblk' = [logblk EXCEPT ![i] = Read(lh[i])]
  /\ UNCHANGED <<home, hdr, mem, sys, wrote>>

\* Mutant: the home blocks are installed before the header is written.
write_head_Late(p) ==
  /\ At(p, "write_head") /\ Goto(p, "install")
  /\ UNCHANGED <<disk, mem, sys, tail, wrote>>

\* The commit point.
write_head(p) ==
  /\ At(p, "write_head") /\ Goto(p, "install")
  /\ hdr' = lh
  /\ UNCHANGED <<home, logblk, mem, sys, tail, wrote>>

\* bwrite of the home block clears B_DIRTY, which unpins the buffer.
install_trans(p, pc, next) ==
  LET i == tail[p] + 1 IN
  /\ LoopStep(p, pc, next)
  /\ home' = [home EXCEPT ![lh[i]] = logblk[i]]
  /\ cache' = [cache EXCEPT ![lh[i]] = logblk[i]]
  /\ dirty' = dirty \ {lh[i]}
  /\ UNCHANGED <<logblk, hdr, lh, outstanding, committing, sys, wrote>>

\* log.lh.n = 0; write_head()
erase(p) ==
  /\ At(p, "erase") /\ Goto(p, "finish")
  /\ lh' = <<>> /\ hdr' = <<>>
  /\ UNCHANGED <<home, logblk, cache, dirty, outstanding, committing, sys, tail, wrote>>

\* Mutant: no wakeup after the commit.
end_commit_NoWakeup(p) ==
  /\ At(p, "finish") /\ Goto(p, "out")
  /\ committing' = FALSE
  /\ UNCHANGED <<disk, cache, dirty, lh, outstanding, sys, tail, wrote>>

\* The rest of end_op in the process that committed.
end_commit(p) ==
  /\ At(p, "finish") /\ WakeupAndGoto(p, "out")
  /\ committing' = FALSE
  /\ UNCHANGED <<disk, cache, dirty, lh, outstanding, sys, tail, wrote>>

commit(p) ==
  \/ write_log(p)
  \/ write_head(p)
  \/ install_trans(p, "install", "erase")
  \/ erase(p)
  \/ end_commit(p)

-----------------------------------------------------------------------------
\* forkret calls initlog in the first process only; read_head.
initlog(p) ==
  /\ sys = "down" /\ sys' = "recovering"
  /\ lh' = hdr
  /\ Goto(p, IF hdr = <<>> THEN "rec_erase" ELSE "rec_install")
  /\ UNCHANGED <<disk, cache, dirty, outstanding, committing, tail, wrote>>

\* The end of recover_from_log.
rec_erase(p) ==
  /\ At(p, "rec_erase") /\ Goto(p, "out")
  /\ sys' = "up"
  /\ lh' = <<>> /\ hdr' = <<>>
  /\ UNCHANGED <<home, logblk, cache, dirty, outstanding, committing, tail, wrote>>

recover_from_log(p) ==
  \/ initlog(p)
  \/ install_trans(p, "rec_install", "rec_erase")
  \/ rec_erase(p)

\* Indices of the log entries that processes at the points pcs are writing.
Writing(pcs) == {tail[p] + 1 : p \in {q \in Ops : op[q] \in pcs}}

Crash ==
  /\ sys # "down" /\ sys' = "down"
  /\ logblk' \in {logblk} \cup
       {[logblk EXCEPT ![i] = Torn] : i \in Writing({"write_log"})}
  /\ home' \in {home} \cup
       {[home EXCEPT ![lh[i]] = Torn] : i \in Writing({"install", "rec_install"})}
  /\ cache' = [b \in Blocks |-> NoBuf] /\ dirty' = {}
  /\ lh' = <<>> /\ outstanding' = 0 /\ committing' = FALSE
  /\ op' = [p \in Ops |-> "out"]
  /\ tail' = [p \in Ops |-> 0]
  /\ wrote' = [p \in Ops |-> {}]
  /\ UNCHANGED hdr

Step(p) ==
  \/ begin_op(p)
  \/ log_test(p)
  \/ \E b \in Blocks, d \in Data : log_write(p, b, d)
  \/ end_op(p)
  \/ commit(p)
  \/ recover_from_log(p)

Next == (\E p \in Ops : Step(p)) \/ (\E b \in Blocks : Evict(b)) \/ Crash

Spec == Init /\ [][Next]_vars

\* Runnable processes run (the scheduler is round-robin), a call makes finitely
\* many writes and then ends, and the machine stops crashing; nobody is obliged
\* to start a call or to write.
FairSpec ==
  /\ Spec
  /\ \A p \in Ops : /\ WF_vars(begin_op(p) /\ op[p] = "woken")
                    /\ WF_vars(\E b \in Blocks, d \in Data : log_write(p, b, d))
                    /\ []<>(op[p] \notin {"in", "logging"})
                    /\ WF_vars(commit(p))
  /\ WF_vars(\E p \in Ops : recover_from_log(p))
  /\ <>[][~Crash]_vars

-----------------------------------------------------------------------------
Calling == {p \in Ops : op[p] \in {"in", "logging", "panic"}}
CommitPoints == {"write_log", "write_head", "install", "erase", "finish"}
Committers == {p \in Ops : op[p] \in CommitPoints}
RecoveryPoints == {"rec_install", "rec_erase"}

\* The disk, struct log, the cache and the processes keep their types.
TypeOK ==
  /\ home \in [Blocks -> Data \cup {Torn}]
  /\ logblk \in [LogIndex -> Data \cup {Torn}]
  /\ hdr \in Seq(Blocks) /\ lh \in Seq(Blocks)
  /\ cache \in [Blocks -> Data \cup {NoBuf}] /\ dirty \subseteq Blocks
  /\ outstanding \in Nat /\ committing \in BOOLEAN
  /\ sys \in {"down", "recovering", "up"}
  /\ op \in [Ops -> {"out", "asleep", "woken", "in", "logging", "panic"}
                    \cup CommitPoints \cup RecoveryPoints]
  /\ tail \in [Ops -> Nat]
  /\ wrote \in [Ops -> SUBSET Blocks]

\* Home blocks h after the log blocks l have been installed under header s.
Replay(h, l, s) ==
  [b \in Blocks |-> IF \E i \in 1 .. Len(s) : s[i] = b
                    THEN l[CHOOSE i \in 1 .. Len(s) : s[i] = b]
                    ELSE h[b]]

\* What recovery would leave at the home locations if the machine died now.
Recovered == Replay(home, logblk, hdr)

\* What a reader sees; before recovery is over nobody reads.
Current == IF sys = "up" THEN [b \in Blocks |-> Read(b)] ELSE Recovered

Store == INSTANCE JournaledStore
           WITH durable <- Recovered, current <- Current, active <- Calling

\* The log implements the atomic store: a crash at any disk write, in commit
\* or in recovery itself, leaves all or nothing of the calls grouped since the
\* last commit, and never part of a call (log.c:9-15, commit, recover_from_log).
Atomic == Store!Spec

\* commit() runs alone: no call is in progress, only one process commits, and
\* end_op cannot meet its own panic("log.committing") (log.c:143-174).
CommitAlone ==
  /\ committing => Calling = {}
  /\ committing <=> Committers # {}
  /\ \A p, q \in Committers : p = q

\* The log never outgrows its blocks on disk, so write_log and install_trans
\* stay inside log.start+1 .. log.start+size-1 and do not run into the inode
\* blocks that follow: log_write's test is stale by the time it appends, and
\* only begin_op's reservation can ensure this (log.c:132, 176-190, 218-230).
\* What an overrun would overwrite is not modelled.
LogFits ==
  /\ Len(lh) <= Nlog - 1
  /\ \A i \in Writing({"write_log", "install", "rec_install"}) : i \in LogIndex

\* A process asleep in begin_op always has someone left to wake it: a call in
\* progress or a commit, each of which ends in wakeup(&log) (log.c:124-174).
SleeperHasWaker ==
  (\E p \in Ops : op[p] = "asleep") => Calling # {} \/ committing

\* B_DIRTY pins exactly what eviction would lose: a clean cached block equals
\* its home block, so the cache and the disk never disagree silently
\* (log_write's "prevent eviction", bio.c bget, install_trans's bwrite).
EvictionSafe ==
  \A b \in Blocks : cache[b] # NoBuf /\ b \notin dirty => cache[b] = home[b]

\* No call that keeps to OpBlocks blocks meets "too big a transaction", for which
\* begin_op reserved MAXOPBLOCKS, "log_write outside of trans" or "log.committing"
\* (log.c:132-134, 152-153, 218-221; param.h:11-12).
NoPanic == \A p \in Ops : op[p] # "panic"

\* A process asleep in begin_op is woken unless a crash ends it: wakeups are
\* not lost between end_op's two critical sections (log.c:143-174).
SleeperWakes == \A p \in Ops : op[p] = "asleep" ~> op[p] # "asleep"
=============================================================================
