-------------------------------- MODULE Boot --------------------------------
(***************************************************************************)
(* Start of the machine: main and startothers of main.c, entryother.S, and *)
(* the two phases of kalloc.c.  Until kinit2 is done the free list is used *)
(* without its lock, and all other CPUs get their stack through one cell   *)
(* below the entry code.                                                   *)
(***************************************************************************)
EXTENDS Integers, Sequences, SequencesExt, FiniteSets

CONSTANTS NCPU,        \* CPU 1 boots the others
          Low, High    \* how many pages kinit1 and kinit2 put on the free list

VARIABLES pc,          \* each CPU: where it is
          next,        \* startothers: the CPU to start
          freelist, use_lock,
          r,           \* each CPU: the unlocked list as it read it, <<>> if it has not
          cell,        \* the stack for the CPU being started, *(code-4)
          esp,         \* each CPU: the stack it switched to
          pages,       \* each CPU: the pages it has allocated
          process      \* userinit has made a process that CPUs can run

vars == <<pc, next, freelist, use_lock, r, cell, esp, pages, process>>

Cpus == 1..NCPU
Others == 2..NCPU

\* kinit1 has put the first pages on the list.
Init == /\ pc = [c \in Cpus |-> IF c = 1 THEN "startothers" ELSE "off"]
        /\ next = 2
        /\ freelist = [i \in 1..Low |-> i]
        /\ use_lock = FALSE
        /\ r = [c \in Cpus |-> <<>>]
        /\ cell = 0
        /\ esp = [c \in Cpus |-> IF c = 1 THEN Low + High + 1 ELSE 0]
        /\ pages = [c \in Cpus |-> {}]
        /\ process = FALSE

\* kalloc under the lock is a step.  Without it the head is read, and then set to
\* its successor; g is where the CPU goes on.
kalloc(c, g) ==
  \/ /\ use_lock /\ freelist # <<>>
     /\ pages' = [pages EXCEPT ![c] = @ \union {Head(freelist)}]
     /\ freelist' = Tail(freelist)
     /\ pc' = [pc EXCEPT ![c] = g]
     /\ UNCHANGED r
  \/ /\ ~use_lock /\ r[c] = <<>> /\ freelist # <<>>
     /\ r' = [r EXCEPT ![c] = freelist]
     /\ UNCHANGED <<pages, freelist, pc>>
  \/ /\ ~use_lock /\ r[c] # <<>>
     /\ pages' = [pages EXCEPT ![c] = @ \union {Head(r[c])}]
     /\ freelist' = Tail(r[c])
     /\ r' = [r EXCEPT ![c] = <<>>]
     /\ pc' = [pc EXCEPT ![c] = g]

\* startothers: take a stack, leave it in the cell, send the startup message, and
\* wait for the CPU.
startothers_stack ==
  /\ pc[1] = "startothers" /\ next <= NCPU
  /\ kalloc(1, "startap")
  /\ UNCHANGED <<next, use_lock, cell, esp, process>>

lapicstartap ==
  /\ pc[1] = "startap"
  /\ \E s \in pages[1] : cell' = s
  /\ pages' = [pages EXCEPT ![1] = {}]
  /\ pc' = [pc EXCEPT ![1] = "await", ![next] = "entry"]
  /\ UNCHANGED <<next, freelist, use_lock, r, esp, process>>

started(c) == pc[c] = "scheduler"

startothers_await ==
  /\ pc[1] = "await" /\ started(next)
  /\ next' = next + 1
  /\ pc' = [pc EXCEPT ![1] = "startothers"]
  /\ UNCHANGED <<freelist, use_lock, r, cell, esp, pages, process>>

\* entryother.S: switch to the stack, enter mpenter and mpmain.
entryother(c) ==
  /\ pc[c] = "entry"
  /\ esp' = [esp EXCEPT ![c] = cell]
  /\ pc' = [pc EXCEPT ![c] = "mpmain"]
  /\ UNCHANGED <<next, freelist, use_lock, r, cell, pages, process>>

mpmain(c) ==
  /\ pc[c] = "mpmain"
  /\ pc' = [pc EXCEPT ![c] = "scheduler"]
  /\ UNCHANGED <<next, freelist, use_lock, r, cell, esp, pages, process>>

locking_Never == FALSE

locking == TRUE

\* kinit2: the rest of memory, then the lock.
kinit2 ==
  /\ pc[1] = "startothers" /\ next > NCPU
  /\ freelist' = [i \in 1..High |-> Low + High + 1 - i] \o freelist
  /\ use_lock' = locking
  /\ pc' = [pc EXCEPT ![1] = "userinit"]
  /\ UNCHANGED <<next, r, cell, esp, pages, process>>

userinit ==
  /\ pc[1] = "userinit"
  /\ kalloc(1, "mpmain")
  /\ process' = (pc'[1] = "mpmain")
  /\ UNCHANGED <<next, use_lock, cell, esp>>

\* A CPU that runs a process allocates and frees.
run_kalloc(c) == /\ pc[c] = "scheduler" /\ process
                 /\ kalloc(c, "scheduler")
                 /\ UNCHANGED <<next, use_lock, cell, esp, process>>

run_kfree(c) == /\ pc[c] = "scheduler" /\ process /\ r[c] = <<>>
                /\ \E x \in pages[c] : /\ freelist' = <<x>> \o freelist
                                       /\ pages' = [pages EXCEPT ![c] = @ \ {x}]
                /\ UNCHANGED <<pc, next, use_lock, r, cell, esp, process>>

Next == \/ startothers_stack \/ lapicstartap \/ startothers_await \/ kinit2 \/ userinit
        \/ \E c \in Cpus : entryother(c) \/ mpmain(c) \/ run_kalloc(c) \/ run_kfree(c)

Spec == Init /\ [][Next]_vars

-----------------------------------------------------------------------------
\* No page is handed out twice, and none is on the list while it is in use: the
\* unlocked phase of the allocator has one user, since no process exists before
\* kinit2 is done (main.c:34-37, kalloc.c:70-75, 87-93).
PagesGivenOnce ==
  /\ \A c, d \in Cpus : c # d => pages[c] \intersect pages[d] = {}
  /\ \A c \in Cpus : pages[c] \intersect ToSet(freelist) = {}
  /\ IsInjective(freelist)

\* Every CPU that has entered the kernel has a stack of its own, and no such stack
\* is given to anybody else: the next CPU is started only when the one before has
\* taken its stack from the cell (main.c:85, 92).
OwnStacks ==
  \A c \in Others : esp[c] # 0 =>
    /\ \A d \in Cpus \ {c} : esp[c] # esp[d] /\ esp[c] \notin pages[d]
    /\ esp[c] \notin ToSet(freelist)
=============================================================================
