-------------------------------- MODULE Pipe --------------------------------
(***************************************************************************)
(* pipe.c: a ring of PIPESIZE bytes between writers and readers that sleep *)
(* on &nwrite and &nread.  The code runs under p->lock, so a pass of a     *)
(* loop up to the next sleep is one step; kill() takes only ptable.lock    *)
(* and can come between a loop's test of `killed` and its sleep.           *)
(***************************************************************************)
EXTENDS Naturals, Sequences, FiniteSetsExt

CONSTANTS Writers, Readers, Byte,
          PIPESIZE,
          Word,       \* the counters are uint: arithmetic modulo Word
          MaxN,       \* bound: bytes per call
          Nobody

\* What the constants must satisfy.
PipeAssumption ==
  /\ PIPESIZE \in Nat \ {0} /\ Word \in Nat /\ Word > PIPESIZE /\ MaxN \in Nat
  /\ Word % PIPESIZE = 0          \* 512 divides 2^32
  /\ Writers \cap Readers = {} /\ Nobody \notin Writers \cup Readers

Procs == Writers \cup Readers

VARIABLES data, nread, nwrite, readopen, writeopen,  \* struct pipe
          lock,      \* who holds p->lock across steps
          killed, pc,
          left,      \* of a writer: the bytes its call still has to write
          got        \* of a reader: what its last read returned

ring == <<data, nread, nwrite>>
vars == <<ring, readopen, writeopen, lock, killed, pc, left, got>>

Init ==
  /\ \E c \in Byte : data = [i \in 0 .. PIPESIZE - 1 |-> c]
  /\ nread = 0 /\ nwrite = 0
  /\ readopen = TRUE /\ writeopen = TRUE
  /\ lock = Nobody
  /\ killed = [p \in Procs |-> FALSE]
  /\ pc = [p \in Procs |-> "out"]
  /\ left = [p \in Writers |-> <<>>]
  /\ got = [p \in Readers |-> <<>>]

Goto(p, l) == pc' = [pc EXCEPT ![p] = l]

WakeupAndGoto_OnlyGoto(S, p, l) == Goto(p, l)
\* wakeup of the sleepers in S together with p's move to l.
WakeupAndGoto(S, p, l) ==
  pc' = [q \in Procs |-> IF q = p THEN l
                         ELSE IF q \in S /\ pc[q] = "asleep" THEN "awake" ELSE pc[q]]

Count == (nwrite + Word - nread) % Word
Empty == nread = nwrite

\* The bytes in the pipe, oldest first.
Contents == [j \in 1 .. Count |-> data[(nread + j - 1) % PIPESIZE]]

\* A killed process leaves the kernel and exits when its call returns.
Leave(p) == IF killed[p] THEN "dead" ELSE "out"

\* A system call on an end that is open.
call_write(p, s) ==
  /\ pc[p] = "out" /\ writeopen /\ Goto(p, "called")
  /\ left' = [left EXCEPT ![p] = s]
  /\ UNCHANGED <<ring, readopen, writeopen, lock, killed, got>>

call_read(p) ==
  /\ pc[p] = "out" /\ readopen /\ Goto(p, "called")
  /\ UNCHANGED <<ring, readopen, writeopen, lock, killed, left, got>>

\* pipewrite from taking the lock, or from waking with it, to the next sleep or
\* return: copy while there is room.
Copied(p) == Min({Len(left[p]), PIPESIZE - Count})

Copy_NoWrap(p, k) ==
  /\ data' = [i \in DOMAIN data |-> IF i + 1 \in 1 .. k THEN left[p][i + 1] ELSE data[i]]
  /\ nwrite' = (nwrite + k) % Word

Copy(p, k) ==
  /\ data' = [i \in DOMAIN data |->
                LET J == {j \in 1 .. k : i = (nwrite + j - 1) % PIPESIZE}
                IN IF J = {} THEN data[i] ELSE left[p][Max(J)]]
  /\ nwrite' = (nwrite + k) % Word

pipewrite(p) ==
  LET rest == SubSeq(left[p], Copied(p) + 1, Len(left[p])) IN
  /\ pc[p] \in {"called", "awake"} /\ lock = Nobody
  /\ Copy(p, Copied(p))
  /\ \/ /\ rest = <<>>
        /\ WakeupAndGoto(Readers, p, Leave(p)) /\ UNCHANGED lock
        /\ left' = [left EXCEPT ![p] = <<>>]
     \/ /\ rest # <<>> /\ (~readopen \/ killed[p])
        /\ Goto(p, Leave(p)) /\ UNCHANGED lock
        /\ left' = [left EXCEPT ![p] = <<>>]
     \/ /\ rest # <<>> /\ readopen /\ ~killed[p]
        /\ WakeupAndGoto(Readers, p, "tosleep") /\ lock' = p
        /\ left' = [left EXCEPT ![p] = rest]
  /\ UNCHANGED <<nread, readopen, writeopen, killed, got>>

\* piperead likewise, for a read of up to n bytes.
piperead(p, n) ==
  LET k == Min({n, Count}) IN
  /\ pc[p] \in {"called", "awake"} /\ lock = Nobody
  /\ \/ /\ Empty /\ writeopen /\ killed[p]
        /\ Goto(p, Leave(p)) /\ UNCHANGED <<nread, lock, got>>
     \/ /\ Empty /\ writeopen /\ ~killed[p]
        /\ Goto(p, "tosleep") /\ lock' = p /\ UNCHANGED <<nread, got>>
     \/ /\ ~(Empty /\ writeopen)
        /\ got' = [got EXCEPT ![p] = SubSeq(Contents, 1, k)]
        /\ nread' = (nread + k) % Word
        /\ WakeupAndGoto(Writers, p, Leave(p)) /\ UNCHANGED lock
  /\ UNCHANGED <<data, nwrite, readopen, writeopen, killed, left>>

\* sleep(chan, &p->lock): asleep and unlocked in one step.
sleep(p) ==
  /\ pc[p] = "tosleep" /\ Goto(p, "asleep") /\ lock' = Nobody
  /\ UNCHANGED <<ring, readopen, writeopen, killed, left, got>>

\* fileclose of the last reference to an end calls pipeclose.
pipeclose_NoWakeup(writable) ==
  /\ lock = Nobody
  /\ \A p \in IF writable THEN Writers ELSE Readers : pc[p] \in {"out", "dead"}
  /\ IF writable THEN writeopen /\ writeopen' = FALSE /\ UNCHANGED readopen
                 ELSE readopen /\ readopen' = FALSE /\ UNCHANGED writeopen
  /\ UNCHANGED <<ring, lock, killed, pc, left, got>>

pipeclose(writable) ==
  /\ lock = Nobody
  /\ \A p \in IF writable THEN Writers ELSE Readers : pc[p] \in {"out", "dead"}
  /\ IF writable THEN writeopen /\ writeopen' = FALSE /\ UNCHANGED readopen
                 ELSE readopen /\ readopen' = FALSE /\ UNCHANGED writeopen
  /\ pc' = [q \in Procs |->
              IF pc[q] = "asleep" /\ (q \in Readers <=> writable) THEN "awake" ELSE pc[q]]
  /\ UNCHANGED <<ring, lock, killed, left, got>>

\* kill() of proc.c.
kill(p) ==
  /\ ~killed[p] /\ killed' = [killed EXCEPT ![p] = TRUE]
  /\ Goto(p, CASE pc[p] = "asleep" -> "awake" [] pc[p] = "out" -> "dead" [] OTHER -> pc[p])
  /\ UNCHANGED <<ring, readopen, writeopen, lock, left, got>>

Messages == UNION {[1 .. n -> Byte] : n \in 0 .. MaxN}

Run(p) ==
  \/ p \in Writers /\ pipewrite(p)
  \/ p \in Readers /\ \E n \in 0 .. MaxN : piperead(p, n)
  \/ sleep(p)

Next ==
  \/ \E p \in Writers, s \in Messages : call_write(p, s)
  \/ \E p \in Readers : call_read(p)
  \/ \E p \in Procs : Run(p) \/ kill(p)
  \/ \E writable \in BOOLEAN : pipeclose(writable)

Spec == Init /\ [][Next]_vars

\* Processes inside the kernel keep running; nobody is forced to make a call,
\* to close an end or to kill.
FairSpec == Spec /\ \A p \in Procs : WF_vars(Run(p))

-----------------------------------------------------------------------------

\* The fields keep their types and p->lock is held only by a process that is
\* about to sleep (pipe.c:91, pipe.c:111).
TypeOK ==
  /\ data \in [0 .. PIPESIZE - 1 -> Byte]
  /\ nread \in 0 .. Word - 1 /\ nwrite \in 0 .. Word - 1
  /\ readopen \in BOOLEAN /\ writeopen \in BOOLEAN
  /\ killed \in [Procs -> BOOLEAN]
  /\ pc \in [Procs -> {"out", "called", "tosleep", "asleep", "awake", "dead"}]
  /\ \A p \in Procs : lock = p <=> pc[p] = "tosleep"
  /\ DOMAIN left = Writers /\ DOMAIN got = Readers

\* Every byte a writer puts in comes out once, in order, and the ring never holds more
\* than PIPESIZE bytes, also when nread and nwrite wrap around (pipe.c:85, 93,
\* 113-117).
Fifo == INSTANCE BoundedFifo WITH Size <- PIPESIZE, q <- Contents
Queue == <<Contents, left, got>>
IsFifo == Fifo!Spec

\* A reader sleeps only while the pipe can still be written to and is empty, or
\* a writer was killed, which returns from a full pipe without waking readers;
\* a writer sleeps only while the pipe is full and can still be read.  Readers
\* and writers never sleep at once, each waiting for the other (pipe.c:65, 68,
\* 86-90, 95, 118).
SleepIsJustified ==
  /\ \A p \in Readers : pc[p] = "asleep" =>
       /\ writeopen
       /\ Count = 0 \/ \E q \in Writers : pc[q] = "dead"
  /\ \A p \in Writers : pc[p] = "asleep" => Count = PIPESIZE /\ readopen
  /\ \A p \in Readers, q \in Writers : ~(pc[p] = "asleep" /\ pc[q] = "asleep")

\* Once the other end is closed every call on this end returns (the `readopen`
\* and `writeopen` tests of pipe.c:86 and pipe.c:106, the wakeups of pipeclose).
CloseReleases ==
  \A p \in Procs :
    (IF p \in Readers THEN ~writeopen ELSE ~readopen) ~> pc[p] \in {"out", "dead"}

\* A process that was killed is not left asleep: kill says it will "wake process
\* from sleep if necessary" (proc.c:492).
KilledIsAwake == \A p \in Procs : killed[p] => pc[p] # "asleep"
=============================================================================
