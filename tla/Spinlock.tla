------------------------------ MODULE Spinlock ------------------------------
(***************************************************************************)
(* Spin locks, interrupts and context switches: spinlock.c with sched and  *)
(* scheduler of proc.c.  A CPU has its interrupt flag, ints, and ncli and     *)
(* intena for nested pushcli.  Kernel threads are the processes and one    *)
(* scheduler per CPU; a thread executes its code, or above it the clock    *)
(* handler, which takes the same locks and yields.                         *)
(***************************************************************************)
EXTENDS Integers, Sequences

CONSTANTS NCPU, NTHREAD

VARIABLES cpu,      \* each CPU: ncli, intena, interrupt flag, and the thread it executes
          lock,     \* each lock: the CPU that holds it (lk->cpu), 0 if free
          thread    \* each thread: next operation, next of the handler, intena saved by sched

vars == <<cpu, lock, thread>>

Cpus == 1..NCPU
Threads == 1..NTHREAD                   \* processes
Scheduler(c) == NTHREAD + c             \* and the scheduler thread of each CPU
AllThreads == 1..NTHREAD + NCPU
IsProc(t) == t \in Threads

(* What threads do, as far as locks go: "lk" is a lock such as tickslock,  *)
(* which handlers take too, "pt" is ptable.lock.                           *)
Take(l) == [op |-> "acquire", lk |-> l]
Drop(l) == [op |-> "release", lk |-> l]
Op(o) == [op |-> o, lk |-> "none"]
sleepCode == <<Take("lk"), Take("pt"), Drop("lk"), Op("sched"), Drop("pt"), Op("trapret")>>
schedulerCode == <<Op("sti"), Take("pt"), Op("switch"), Drop("pt")>>
yieldCode == <<Take("pt"), Op("sched"), Drop("pt")>>
handlerCode(t) == <<Take("lk"), Take("pt"), Drop("pt"), Drop("lk")>>
                  \o (IF IsProc(t) THEN yieldCode ELSE <<>>) \o <<Op("iret")>>
Code(t) == IF IsProc(t) THEN sleepCode ELSE schedulerCode

Cur(c) == cpu[c].t
InHandler(t) == thread[t].hpc > 0
Current(t) == IF InHandler(t) THEN handlerCode(t)[thread[t].hpc] ELSE Code(t)[thread[t].pc]
Advance(th, t) == IF th[t].hpc > 0 THEN [th EXCEPT ![t].hpc = @ + 1]
                  ELSE [th EXCEPT ![t].pc = (@ % Len(Code(t))) + 1]

\* Processes start in forkret with ptable.lock held, as if back from sched.
Init == /\ cpu = [c \in Cpus |-> [ncli |-> 0, intena |-> FALSE, ints |-> FALSE, t |-> Scheduler(c),
                                  spin |-> FALSE]]
        /\ lock = [l \in {"lk", "pt"} |-> 0]
        /\ thread = [t \in AllThreads |-> [pc |-> IF IsProc(t) THEN 5 ELSE 1, hpc |-> 0,
                                           intena |-> FALSE, fresh |-> IsProc(t)]]

pushcli(s) == [s EXCEPT !.ncli = @ + 1, !.intena = IF s.ncli = 0 THEN s.ints ELSE @, !.ints = FALSE]

popcli(s) == [s EXCEPT !.ncli = @ - 1, !.ints = IF s.ncli = 1 THEN s.intena ELSE @]

\* acquire: pushcli, then spin until the exchange finds the lock free.
acquire(c) ==
  LET t == Cur(c) IN
  /\ Current(t).op = "acquire"
  /\ \/ /\ ~cpu[c].spin
        /\ cpu' = [cpu EXCEPT ![c] = [pushcli(@) EXCEPT !.spin = TRUE]]
        /\ UNCHANGED <<lock, thread>>
     \/ /\ cpu[c].spin /\ lock[Current(t).lk] = 0
        /\ lock' = [lock EXCEPT ![Current(t).lk] = c]
        /\ cpu' = [cpu EXCEPT ![c].spin = FALSE]
        /\ thread' = Advance(thread, t)

release(c) ==
  LET t == Cur(c) IN
  /\ Current(t).op = "release"
  /\ lock' = [lock EXCEPT ![Current(t).lk] = 0]
  /\ cpu' = [cpu EXCEPT ![c] = popcli(@)]
  /\ thread' = Advance(thread, t)

\* sched: save intena, switch to the scheduler thread.
sched(c) ==
  LET t == Cur(c) IN
  /\ Current(t).op = "sched"
  /\ cpu' = [cpu EXCEPT ![c].t = Scheduler(c)]
  /\ thread' = Advance([thread EXCEPT ![t].intena = cpu[c].intena, ![t].fresh = FALSE], t)
  /\ UNCHANGED lock

resumed_Keep(s, t) == [s EXCEPT !.t = t]

\* swtch to process t, which restores its intena unless it starts in forkret.
resumed(s, t) == [s EXCEPT !.t = t, !.intena = IF thread[t].fresh THEN @ ELSE thread[t].intena]

\* scheduler: run a process that no CPU runs, or find none.
switch(c) ==
  LET t == Cur(c) IN
  /\ Current(t).op = "switch"
  /\ \/ \E p \in Threads : /\ \A d \in Cpus : Cur(d) # p
                           /\ cpu' = [cpu EXCEPT ![c] = resumed(@, p)]
                           /\ UNCHANGED thread
     \/ cpu' = cpu /\ thread' = Advance(thread, t)
  /\ UNCHANGED lock

\* A process returns to user space, with interrupts on, and comes back.
trapret(c) == /\ Current(Cur(c)).op = "trapret"
              /\ cpu' = [cpu EXCEPT ![c].ints = TRUE]
              /\ thread' = Advance([thread EXCEPT ![Cur(c)].fresh = FALSE], Cur(c))
              /\ UNCHANGED lock

sti(c) == /\ Current(Cur(c)).op = "sti"
          /\ cpu' = [cpu EXCEPT ![c].ints = TRUE]
          /\ thread' = Advance(thread, Cur(c))
          /\ UNCHANGED lock

\* The clock: the interrupt gate clears the flag, iret restores it.
interrupt(c) == /\ cpu[c].ints
                /\ cpu' = [cpu EXCEPT ![c].ints = FALSE]
                /\ thread' = [thread EXCEPT ![Cur(c)].hpc = 1]
                /\ UNCHANGED lock

iret(c) == /\ Current(Cur(c)).op = "iret"
           /\ cpu' = [cpu EXCEPT ![c].ints = TRUE]
           /\ thread' = [thread EXCEPT ![Cur(c)].hpc = 0]
           /\ UNCHANGED lock

Next == \E c \in Cpus : \/ acquire(c) \/ release(c) \/ sched(c) \/ switch(c)
                        \/ trapret(c) \/ sti(c) \/ interrupt(c) \/ iret(c)

Spec == Init /\ [][Next]_vars

-----------------------------------------------------------------------------
Held(c) == {l \in DOMAIN lock : lock[l] = c}

\* The kernel's own panics are never met: nobody acquires a lock its CPU holds
\* (spinlock.c:28), releases one it does not hold (49), pops with interrupts on or
\* too often (119, 121), or calls sched with another lock, without ptable.lock or
\* with interrupts on (proc.c:374-381).
NoLockPanic ==
  \A c \in Cpus : LET o == Current(Cur(c)) IN
    /\ cpu[c].spin => lock[o.lk] # c
    /\ o.op = "release" => lock[o.lk] = c /\ ~cpu[c].ints /\ cpu[c].ncli > 0
    /\ o.op = "sched" => Held(c) = {"pt"} /\ cpu[c].ncli = 1 /\ ~cpu[c].ints

\* Interrupts are off while a lock is held, or waited for.  Without locks a process
\* in a system call has them on, and a handler has them off, whatever switches to
\* other threads and CPUs lie behind it: intena follows the thread (proc.c:361-367).
\* Only forkret runs with what the CPU's last thread left, until it reaches user space.
IntenaFollowsThread ==
  \A c \in Cpus : LET t == Cur(c) IN
    /\ (Held(c) # {} \/ cpu[c].spin) => ~cpu[c].ints /\ cpu[c].ncli > 0
    /\ (Held(c) = {} /\ ~cpu[c].spin) =>
          /\ cpu[c].ncli = 0
          /\ IsProc(t) /\ ~thread[t].fresh => (cpu[c].ints <=> ~InHandler(t))
=============================================================================
