-------------------------------- MODULE Proc --------------------------------
(***************************************************************************)
(* Processes: the table of proc.c, its scheduler on several CPUs, and the  *)
(* clock of trap.c with sys_sleep as the client of sleep and wakeup.       *)
(*                                                                         *)
(* A step is a section under ptable.lock or tickslock, or code between     *)
(* such sections.  ptable.lock is held across swtch: the process that      *)
(* gives up the CPU leaves it to the scheduler, the scheduler to the next  *)
(* process; plock says which CPU has it between steps.  CPU 1 is the one   *)
(* whose timer interrupt counts ticks (cpuid() == 0).                      *)
(***************************************************************************)
EXTENDS Integers, FiniteSets, FiniteSetsExt

CONSTANTS NPROC,    \* slots of the process table
          NCPU,     \* CPUs
          MaxPid,   \* bound on nextpid
          Word,     \* ticks is an unsigned integer modulo Word (2^32)
          Naps,     \* arguments of sys_sleep, as unsigned integers
          Victims   \* arguments of kill

\* What the constants must satisfy.
ProcAssumption == /\ NPROC \in Nat \ {0} /\ NCPU \in Nat \ {0}
                  /\ MaxPid \in Nat \ {0} /\ Word \in Nat \ {0}
                  /\ Naps \subseteq 0..Word-1 /\ Victims \subseteq 0..MaxPid

VARIABLES ptable,   \* the process table
          nextpid,
          cpu,      \* each CPU: its process, the scheduler's place in the table
          plock,    \* the CPU that holds ptable.lock, 0 if none does
          tlock,    \* who holds tickslock: a process, the interrupt, or 0
          ticks,
          nap       \* each process in sys_sleep: its ticks0 and n

vars == <<ptable, nextpid, cpu, plock, tlock, ticks, nap>>

Slots == 1..NPROC
Cpus == 1..NCPU
initproc == 1
TickChan == NPROC + 1        \* the channel &ticks; a process is its own channel
Irq == NPROC + 1             \* tickslock is held by the clock interrupt

Unused == [state |-> "UNUSED", pid |-> 0, parent |-> 0, killed |-> FALSE,
           chan |-> 0, at |-> "user", np |-> 0]

NoNap == [ticks0 |-> 0, n |-> 0]

\* userinit: the first process, in the first slot.
Init == /\ ptable = [s \in Slots |-> IF s = initproc
                                     THEN [Unused EXCEPT !.state = "RUNNABLE", !.pid = 1]
                                     ELSE Unused]
        /\ nextpid = 2
        /\ cpu = [c \in Cpus |-> [proc |-> 0, scan |-> 1, irq |-> "none"]]
        /\ plock = 0
        /\ tlock = 0
        /\ ticks = 0
        /\ nap = [s \in Slots |-> NoNap]

-----------------------------------------------------------------------------
(* Table operations; pt is the process table so far.                       *)

At(p) == ptable[p].at
Goto(pt, p, a) == [pt EXCEPT ![p].at = a]
SetState(pt, p, st) == [pt EXCEPT ![p].state = st]

wakeup1(pt, chan) ==
  [s \in Slots |-> IF pt[s].state = "SLEEPING" /\ pt[s].chan = chan
                   THEN [pt[s] EXCEPT !.state = "RUNNABLE"] ELSE pt[s]]

Children(pt, p) == {s \in Slots : pt[s].parent = p}
Zombies(pt, p) == {s \in Children(pt, p) : pt[s].state = "ZOMBIE"}

\* sched: process p leaves CPU c to its scheduler, with ptable.lock held; the
\* scheduler goes on with the slot after p.
sched(c, p) == /\ cpu' = [cpu EXCEPT ![c] = [proc |-> 0, scan |-> p + 1, irq |-> "none"]]
               /\ plock' = c

\* Process p executes on CPU c, between interrupts.
Runs(c, p) == cpu[c].proc = p /\ cpu[c].irq = "none" /\ plock # c

-----------------------------------------------------------------------------
(* scheduler                                                               *)

schedulerCandidates_Any(k) == {s \in Slots : s >= k /\ ptable[s].state \in {"RUNNABLE", "RUNNING"}}

schedulerCandidates(k) == {s \in Slots : s >= k /\ ptable[s].state = "RUNNABLE"}

\* One pass over the table, up to the next process to run or to the end.
scheduler(c) ==
  /\ cpu[c].proc = 0 /\ cpu[c].irq = "none"
  /\ plock \in {0, c}
  /\ LET cand == schedulerCandidates(cpu[c].scan) IN
     \/ /\ cand # {}
        /\ cpu' = [cpu EXCEPT ![c].proc = Min(cand)]
        /\ ptable' = SetState(ptable, Min(cand), "RUNNING")
        /\ plock' = c
     \/ /\ cand = {} /\ plock = c
        /\ cpu' = [cpu EXCEPT ![c].scan = 1]
        /\ plock' = 0
        /\ UNCHANGED ptable
  /\ UNCHANGED <<nextpid, tlock, ticks, nap>>

-----------------------------------------------------------------------------
(* fork                                                                    *)

\* allocproc up to release(&ptable.lock); a full table makes fork return -1, and init
\* exit (exit_begin).
allocproc(c, p) ==
  /\ Runs(c, p) /\ At(p) = "user" /\ ~ptable[p].killed
  /\ plock = 0
  /\ nextpid <= MaxPid
  /\ \E s \in {Min({s \in Slots : ptable[s].state = "UNUSED"} \union {NPROC + 1})} \ {NPROC + 1} :
        ptable' = [ptable EXCEPT ![s].state = "EMBRYO", ![s].pid = nextpid,
                                 ![p].at = "fork", ![p].np = s]
  /\ nextpid' = nextpid + 1
  /\ UNCHANGED <<cpu, plock, tlock, ticks, nap>>

\* kalloc or copyuvm fails: the slot is given back without the lock, its pid
\* and its killed flag stay.  init then exits (init.c:23-26).
fork_fail(c, p) ==
  /\ Runs(c, p) /\ At(p) = "fork"
  /\ ptable' = [SetState(ptable, ptable[p].np, "UNUSED") EXCEPT ![p].np = 0,
                       ![p].at = IF p = initproc THEN "panic" ELSE "user"]
  /\ UNCHANGED <<nextpid, cpu, plock, tlock, ticks, nap>>

\* The copies succeed: the child gets its parent, and a context at forkret.
fork_copy(c, p) ==
  /\ Runs(c, p) /\ At(p) = "fork"
  /\ ptable' = [ptable EXCEPT ![ptable[p].np].parent = p,
                              ![ptable[p].np].at = "forkret", ![p].at = "forked"]
  /\ UNCHANGED <<nextpid, cpu, plock, tlock, ticks, nap>>

fork(c, p) ==
  /\ Runs(c, p) /\ At(p) = "forked"
  /\ plock = 0
  /\ ptable' = [SetState(ptable, ptable[p].np, "RUNNABLE") EXCEPT ![p].at = "user", ![p].np = 0]
  /\ UNCHANGED <<nextpid, cpu, plock, tlock, ticks, nap>>

-----------------------------------------------------------------------------
(* exit and wait                                                           *)

\* A process exits by itself, or because trap finds it killed; files are closed
\* before ptable.lock is taken.  init must not exit.
exit_begin(c, p) ==
  /\ Runs(c, p) /\ At(p) = "user"
  /\ p = initproc => ptable[p].killed
  /\ ptable' = Goto(ptable, p, IF p = initproc THEN "panic" ELSE "exit")
  /\ UNCHANGED <<nextpid, cpu, plock, tlock, ticks, nap>>

reparent_NoWakeup(pt, p) ==
  [s \in Slots |-> IF pt[s].parent = p THEN [pt[s] EXCEPT !.parent = initproc] ELSE pt[s]]

\* Pass abandoned children to init, and tell it of those that are zombies.
reparent(pt, p) ==
  LET moved == [s \in Slots |-> IF pt[s].parent = p
                                THEN [pt[s] EXCEPT !.parent = initproc] ELSE pt[s]]
  IN  IF Zombies(pt, p) = {} THEN moved ELSE wakeup1(moved, initproc)

told_Nobody(pt, p) == pt

\* The parent might be sleeping in wait.
told(pt, p) == wakeup1(pt, pt[p].parent)

exit(c, p) ==
  /\ Runs(c, p) /\ At(p) = "exit"
  /\ plock = 0
  /\ ptable' = SetState(reparent(told(ptable, p), p), p, "ZOMBIE")
  /\ sched(c, p)
  /\ UNCHANGED <<nextpid, tlock, ticks, nap>>

\* The loop of wait, ptable.lock held: reap a zombie, give up, or sleep.
waitLoop(c, p) ==
  \/ /\ Zombies(ptable, p) # {}
     /\ ptable' = Goto([ptable EXCEPT ![Min(Zombies(ptable, p))] = Unused, ![p].chan = 0], p, "user")
     /\ plock' = 0
     /\ UNCHANGED cpu
  \/ /\ Zombies(ptable, p) = {}
     /\ Children(ptable, p) = {} \/ ptable[p].killed
     /\ ptable' = Goto([ptable EXCEPT ![p].chan = 0], p, "user")
     /\ plock' = 0
     /\ UNCHANGED cpu
  \/ /\ Zombies(ptable, p) = {} /\ Children(ptable, p) # {} /\ ~ptable[p].killed
     /\ ptable' = Goto(SetState([ptable EXCEPT ![p].chan = p], p, "SLEEPING"), p, "wait")
     /\ sched(c, p)

wait(c, p) ==
  /\ Runs(c, p) /\ At(p) = "user" /\ ~ptable[p].killed
  /\ plock = 0
  /\ waitLoop(c, p)
  /\ UNCHANGED <<nextpid, tlock, ticks, nap>>

-----------------------------------------------------------------------------
(* kill: the first slot with that pid, whatever its state.                 *)

roused_Never(st) == st

roused(st) == IF st = "SLEEPING" THEN "RUNNABLE" ELSE st

kill(c, p, pid) ==
  /\ Runs(c, p) /\ At(p) = "user" /\ ~ptable[p].killed
  /\ plock = 0
  /\ \E s \in Slots :
       /\ ptable[s].pid = pid
       /\ \A t \in 1..s-1 : ptable[t].pid # pid
       /\ ptable' = [ptable EXCEPT ![s].killed = TRUE,
                                   ![s].state = roused(@)]
  /\ UNCHANGED <<nextpid, cpu, plock, tlock, ticks, nap>>

-----------------------------------------------------------------------------
(* sys_sleep                                                               *)

\* The test of the loop, tickslock held: return, or go to sleep (still holding).
napTest_Early(p, w) ==
  IF (ticks - w.ticks0) % Word < w.n /\ ~ptable[p].killed
  THEN ptable' = Goto(ptable, p, "tosleep") /\ nap' = [nap EXCEPT ![p] = w] /\ tlock' = 0
  ELSE ptable' = Goto(ptable, p, "user") /\ nap' = [nap EXCEPT ![p] = NoNap] /\ tlock' = 0

napTest(p, w) ==
  IF (ticks - w.ticks0) % Word < w.n /\ ~ptable[p].killed
  THEN ptable' = Goto(ptable, p, "tosleep") /\ nap' = [nap EXCEPT ![p] = w] /\ tlock' = p
  ELSE ptable' = Goto(ptable, p, "user") /\ nap' = [nap EXCEPT ![p] = NoNap] /\ tlock' = 0

sys_sleep(c, p, n) ==
  /\ Runs(c, p) /\ At(p) = "user" /\ ~ptable[p].killed
  /\ tlock = 0
  /\ napTest(p, [ticks0 |-> ticks, n |-> n])
  /\ UNCHANGED <<nextpid, cpu, plock, ticks>>

\* sleep(&ticks, &tickslock): ptable.lock is taken before tickslock is released.
sleep(c, p) ==
  /\ Runs(c, p) /\ At(p) = "tosleep"
  /\ plock = 0
  /\ ptable' = Goto(SetState([ptable EXCEPT ![p].chan = TickChan], p, "SLEEPING"), p, "nap")
  /\ tlock' = IF tlock = p THEN 0 ELSE tlock
  /\ sched(c, p)
  /\ UNCHANGED <<nextpid, ticks, nap>>

sleep_reacquire(c, p) ==
  /\ Runs(c, p) /\ At(p) = "renap"
  /\ tlock = 0
  /\ napTest(p, nap[p])
  /\ UNCHANGED <<nextpid, cpu, plock, ticks>>

-----------------------------------------------------------------------------
(* swtch returns into the process chosen by the scheduler, which still     *)
(* holds ptable.lock: in forkret, yield, sleep, or sleep called by wait.   *)

resume(c) ==
  /\ plock = c /\ cpu[c].proc # 0
  /\ LET p == cpu[c].proc IN
     IF At(p) = "wait"
     THEN waitLoop(c, p)
     ELSE /\ ptable' = CASE At(p) = "forkret" -> Goto(ptable, p, "user")
                         [] At(p) = "nap" -> Goto([ptable EXCEPT ![p].chan = 0], p, "renap")
                         [] OTHER -> ptable                     \* yield
          /\ plock' = 0
          /\ UNCHANGED cpu
  /\ UNCHANGED <<nextpid, tlock, ticks, nap>>

-----------------------------------------------------------------------------
(* Clock interrupts.  They come when the CPU holds no spin lock, since     *)
(* acquire disables them.  A process in "tosleep" holds tickslock.         *)

Interruptible(c) == /\ cpu[c].irq = "none" /\ plock # c
                    /\ cpu[c].proc # 0 => At(cpu[c].proc) # "tosleep"

tick(t) == (t + 1) % Word

clock_tick(c) ==
  /\ c = 1 /\ Interruptible(c)
  /\ tlock = 0
  /\ tlock' = Irq
  /\ ticks' = tick(ticks)
  /\ cpu' = [cpu EXCEPT ![c].irq = "tick"]
  /\ UNCHANGED <<ptable, nextpid, plock, nap>>

clock_wakeup(c) ==
  /\ cpu[c].irq = "tick" /\ plock = 0
  /\ ptable' = wakeup1(ptable, TickChan)
  /\ tlock' = 0
  /\ cpu' = [cpu EXCEPT ![c].irq = IF cpu[c].proc = 0 THEN "none" ELSE "yield"]
  /\ UNCHANGED <<nextpid, plock, ticks, nap>>

\* The end of trap: exit if killed in user space, otherwise yield.  On the other
\* CPUs this is all that a clock interrupt does.
yield(c) ==
  /\ \/ cpu[c].irq = "yield"
     \/ c # 1 /\ Interruptible(c) /\ cpu[c].proc # 0
  /\ LET p == cpu[c].proc IN
     IF At(p) = "user" /\ ptable[p].killed
     THEN /\ ptable' = Goto(ptable, p, IF p = initproc THEN "panic" ELSE "exit")
          /\ cpu' = [cpu EXCEPT ![c].irq = "none"]
          /\ UNCHANGED plock
     ELSE /\ plock = 0
          /\ ptable' = SetState(ptable, p, "RUNNABLE")
          /\ sched(c, p)
  /\ UNCHANGED <<nextpid, tlock, ticks, nap>>

-----------------------------------------------------------------------------
\* What a process does of its own will, and what it then has to go through.
\* init only forks and waits (init.c:20-34).
Call(c, p) == \/ allocproc(c, p) \/ exit_begin(c, p) \/ wait(c, p)
              \/ p # initproc /\ \E pid \in Victims : kill(c, p, pid)
              \/ p # initproc /\ \E n \in Naps : sys_sleep(c, p, n)
Proceed(c, p) == \/ fork_fail(c, p) \/ fork_copy(c, p) \/ fork(c, p) \/ exit(c, p)
                 \/ sleep(c, p) \/ sleep_reacquire(c, p)
                 \/ ptable[p].killed /\ exit_begin(c, p)
Kernel(c) == scheduler(c) \/ resume(c) \/ clock_wakeup(c) \/ yield(c)

Next == \E c \in Cpus : \/ Kernel(c) \/ clock_tick(c)
                        \/ \E p \in Slots : Call(c, p) \/ Proceed(c, p)

Spec == Init /\ [][Next]_vars

-----------------------------------------------------------------------------
(* Properties                                                              *)

States == {"UNUSED", "EMBRYO", "RUNNABLE", "RUNNING", "SLEEPING", "ZOMBIE"}
Places == {"user", "fork", "forked", "forkret", "exit", "wait", "tosleep", "nap", "renap", "panic"}

\* Type correctness of the process table, the CPUs, the two locks and the clock.
TypeOK ==
  /\ ptable \in [Slots -> [state : States, pid : 0..MaxPid, parent : 0..NPROC,
                           killed : BOOLEAN, chan : 0..NPROC+1, at : Places, np : 0..NPROC]]
  /\ nextpid \in 1..MaxPid+1
  /\ cpu \in [Cpus -> [proc : 0..NPROC, scan : 1..NPROC+1, irq : {"none", "tick", "yield"}]]
  /\ plock \in 0..NCPU
  /\ tlock \in 0..NPROC+1
  /\ ticks \in 0..Word-1
  /\ nap \in [Slots -> [ticks0 : 0..Word-1, n : 0..Word-1]]

\* A process runs on one CPU at most, and exactly while its state is RUNNING: two
\* CPUs never share a kernel stack (scheduler, sched, proc.c:338-355).
RunningOnce ==
  /\ \A c, d \in Cpus : cpu[c].proc = cpu[d].proc /\ cpu[c].proc # 0 => c = d
  /\ \A s \in Slots : ptable[s].state = "RUNNING" <=> \E c \in Cpus : cpu[c].proc = s

\* Every process that has started, or is a zombie, has a parent that can still
\* reap it: a process that exits hands its children to init (proc.c:259).
ParentLives ==
  \A s \in Slots \ {initproc} :
     ptable[s].state \notin {"UNUSED", "EMBRYO"} =>
        /\ ptable[s].parent # 0
        /\ ptable[ptable[s].parent].state \in {"RUNNABLE", "RUNNING", "SLEEPING"}

\* No wakeup of wait is lost: whoever sleeps in wait has a child, no child of it
\* is a zombie, and it has not been killed (proc.c:307-313, 256, 263, 493).
WaiterHasReason ==
  \A p \in Slots : ptable[p].state = "SLEEPING" /\ ptable[p].chan = p =>
     /\ Children(ptable, p) # {} /\ Zombies(ptable, p) = {}
     /\ ~ptable[p].killed

\* No wakeup of the clock is lost: while tickslock is free, whoever sleeps in
\* sys_sleep still has time to wait, also when ticks wraps (sysproc.c:69-74,
\* sleep's order of locks at proc.c:438-441).
NobodyOversleeps ==
  tlock = 0 => \A p \in Slots :
     ptable[p].state = "SLEEPING" /\ ptable[p].chan = TickChan =>
        (ticks - nap[p].ticks0) % Word < nap[p].n

\* A process starts its life unharmed: kill hits only the process that has the
\* pid ("Kill the process with the given pid", proc.c:480), not the next user of
\* a slot.
BornUnharmed ==
  [][\A s \in Slots : ptable[s].state = "UNUSED" /\ ptable'[s].state = "EMBRYO"
                         => ~ptable'[s].killed]_vars

-----------------------------------------------------------------------------
(* Liveness.  Kernel code that can run does; a process that gets the CPU   *)
(* again and again gets through the next step of a call, and through the   *)
(* return to user space where it is found to be killed; the clock ticks.   *)
(* init always waits for its children (init.c).                            *)

CallOf(p, A(_, _)) == \E c \in Cpus : A(c, p)

Fairness ==
  /\ \A c \in Cpus : /\ SF_vars(scheduler(c)) /\ WF_vars(resume(c)) /\ SF_vars(yield(c))
                     /\ WF_vars(clock_tick(c)) /\ WF_vars(clock_wakeup(c))
  /\ \A p \in Slots : SF_vars(CallOf(p, Proceed))
  /\ SF_vars(CallOf(initproc, wait))

FairSpec == Spec /\ Fairness

\* A killed process ends, wherever the kill found it: running, in a call, or
\* asleep in wait or sys_sleep (kill, proc.c:480-501; trap.c:40-45, 99-113).
KilledEnds == \A p \in Slots \ {initproc} :
  ptable[p].killed /\ ptable[p].state \notin {"UNUSED", "EMBRYO"}
     ~> ptable[p].state \in {"ZOMBIE", "UNUSED"}

\* A zombie that init has to reap is reaped, as long as init is not killed:
\* abandoned children do not fill the table (exit, proc.c:258-265).
OrphansReaped == \A p \in Slots :
  ptable[p].state = "ZOMBIE" /\ ptable[p].parent = initproc
     ~> ptable[p].state = "UNUSED" \/ At(initproc) = "panic" \/ ptable[initproc].killed
=============================================================================
