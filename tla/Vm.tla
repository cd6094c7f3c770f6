--------------------------------- MODULE Vm ---------------------------------
(***************************************************************************)
(* Physical pages and address spaces: kalloc.c, vm.c, and the memory side  *)
(* of fork, exec, sbrk, exit and wait.  An address space is the set of the *)
(* places where it has a page: its directory, the kernel's tables, page    *)
(* tables, user pages, and the kernel stack of the process.  Which page it *)
(* is does not matter; how many are free does.  Every kalloc may find the  *)
(* list empty, and processes take their steps in any order.                *)
(***************************************************************************)
EXTENDS Integers, FiniteSets, FiniteSetsExt

CONSTANTS NPROC,
          NPAGE,      \* physical pages
          PGSIZE, NPTENTRIES, KERNBASE,
          Word,       \* sizes are unsigned, modulo Word
          Images,     \* sizes of the programs that exec loads, below KERNBASE
          Deltas      \* arguments of sbrk

VARIABLES free,       \* how many pages the free list has
          space,      \* each owner: its places
          sz,         \* each process: p->sz
          job         \* each process: the call it executes

vars == <<free, space, sz, job>>

Procs == 1..NPROC
New(p) == NPROC + p           \* the space that fork or exec of p builds
Owners == 1..2 * NPROC
Idle == [op |-> "idle", child |-> 0, va |-> 0, old |-> 0, lim |-> 0]

Dir == <<"dir", 0>>
Ktab == <<"ktab", 0>>         \* the page tables of the kernel's part
Stack == <<"kstack", 0>>
Tab(v) == <<"tab", v \div NPTENTRIES>>
Pte(v) == <<"pte", v>>
UserPages(s) == {x \in s : x[1] = "pte"}
PGROUNDUP(n) == (n + PGSIZE - 1) \div PGSIZE         \* in pages
TopPage == KERNBASE \div PGSIZE

\* userinit: one process with a page of code.
Init == LET s0 == {Dir, Ktab, Stack, Tab(0), Pte(0)}
        IN  /\ space = [o \in Owners |-> IF o = 1 THEN s0 ELSE {}]
            /\ free = NPAGE - Cardinality(s0)
            /\ sz = [p \in Procs |-> IF p = 1 THEN PGSIZE ELSE 0]
            /\ job = [p \in Procs |-> Idle]

Live(p) == Stack \in space[p]
\* Without pages a process faults as soon as it is back in user space.
CanCall(p) == Live(p) /\ job[p].op = "idle" /\ UserPages(space[p]) # {}
Building(c) == {q \in Procs : job[q].child = c}
Begin(p, j) == job' = [job EXCEPT ![p] = j]

-----------------------------------------------------------------------------
(* deallocuvm: the loop over the addresses from newsz up to oldsz, which   *)
(* goes on with the next directory entry where there is no page table.     *)

dealloc_start(newsz) == PGROUNDUP(newsz)

deallocuvm(s, oldsz, newsz) ==
  LET end == PGROUNDUP(oldsz)
      skip(v) == (v \div NPTENTRIES + 1) * NPTENTRIES
      walk[v \in 0..TopPage + NPTENTRIES] ==
        IF v >= end THEN {}
        ELSE IF Tab(v) \notin s THEN walk[skip(v)]
        ELSE {Pte(v)} \union walk[v + 1]
  IN  IF newsz >= oldsz THEN {} ELSE walk[dealloc_start(newsz)] \intersect s

\* freevm: user pages, page tables, directory.
freevm(s) == deallocuvm(s, KERNBASE, 0) \union {x \in s : x[1] \in {"tab", "ktab", "dir"}}

\* kalloc for places of o, if there are enough pages; kfree of places of o.
kalloc(o, places) ==
  /\ free >= Cardinality(places)
  /\ free' = free - Cardinality(places)
  /\ space' = [space EXCEPT ![o] = @ \union places]
kfree(o, places) ==
  /\ free' = free + Cardinality(places)
  /\ space' = [space EXCEPT ![o] = @ \ places]

-----------------------------------------------------------------------------
(* fork and exec: setupkvm, then a page at a time.                         *)

\* allocproc takes the kernel stack of the child.
fork(p, c) ==
  /\ CanCall(p) /\ space[c] = {}
  /\ kalloc(c, {Stack})
  /\ Begin(p, [Idle EXCEPT !.op = "fork", !.child = c, !.lim = PGROUNDUP(sz[p])])
  /\ UNCHANGED sz

exec(p, image) ==
  /\ CanCall(p)
  /\ Begin(p, [Idle EXCEPT !.op = "exec", !.lim = PGROUNDUP(image) + 2])
  /\ UNCHANGED <<free, space, sz>>

\* bad: freevm of what was built; fork also gives back the kernel stack.
givenBack_NoStack(p) == Cardinality(freevm(space[New(p)]))

givenBack(p) == Cardinality(freevm(space[New(p)])) + (IF job[p].child = 0 THEN 0 ELSE 1)

fail(p) ==
  LET s == space[New(p)]
      c == job[p].child
  IN  /\ free' = free + givenBack(p)
      /\ space' = [o \in Owners |-> IF o = New(p) THEN s \ freevm(s)
                                    ELSE IF o = c THEN {} ELSE space[o]]
      /\ Begin(p, Idle)
      /\ UNCHANGED sz

setupkvm(p) ==
  LET s == space[New(p)] IN
  /\ job[p].op \in {"fork", "exec"} /\ Ktab \notin s
  /\ \/ free = 0 /\ fail(p)
     \/ kalloc(New(p), {IF s = {} THEN Dir ELSE Ktab}) /\ UNCHANGED <<sz, job>>

\* One page: kalloc, then mappages, which may need a page table.  When there is a
\* page but no page table for it, the page is given back.
Wanted(s, v) == {Pte(v)} \union ({Tab(v)} \ s)
Short(s, v) == free < Cardinality(Wanted(s, v))

mappage(o, p) == /\ kalloc(o, Wanted(space[o], job[p].va))
                 /\ Begin(p, [job[p] EXCEPT !.va = @ + 1])
                 /\ UNCHANGED sz

\* exec has loaded the image, and allocuvm refuses two more pages for the stack.
NoStack(p) == /\ job[p].op = "exec" /\ job[p].va = job[p].lim - 2
              /\ job[p].lim * PGSIZE >= KERNBASE

build(p) ==
  LET s == space[New(p)] IN
  /\ job[p].op \in {"fork", "exec"} /\ Ktab \in s /\ job[p].va < job[p].lim
  /\ IF \/ NoStack(p)
        \/ Short(s, job[p].va)
     THEN fail(p) ELSE mappage(New(p), p)

\* exec: the file is not a program, or cannot be read.
exec_bad(p) == /\ job[p].op = "exec" /\ fail(p)

fork_done(p) ==
  LET c == job[p].child IN
  /\ job[p].op = "fork" /\ Ktab \in space[New(p)] /\ job[p].va = job[p].lim
  /\ space' = [space EXCEPT ![c] = @ \union space[New(p)], ![New(p)] = {}]
  /\ sz' = [sz EXCEPT ![c] = sz[p]]
  /\ Begin(p, Idle)
  /\ UNCHANGED free

\* Commit to the user image, free the old one.
exec_commit(p) ==
  /\ space' = [space EXCEPT ![p] = (@ \ freevm(@)) \union space[New(p)], ![New(p)] = {}]
  /\ free' = free + Cardinality(freevm(space[p]))

exec_done(p) ==
  /\ job[p].op = "exec" /\ Ktab \in space[New(p)] /\ job[p].va = job[p].lim
  /\ exec_commit(p)
  /\ sz' = [sz EXCEPT ![p] = job[p].lim * PGSIZE]
  /\ Begin(p, Idle)

-----------------------------------------------------------------------------
(* sbrk: growproc with allocuvm or deallocuvm.                             *)

sbrk(p, n) ==
  LET new == (sz[p] + n) % Word
      gone == deallocuvm(space[p], sz[p], new)
  IN  /\ CanCall(p)
      /\ IF n > 0
         THEN /\ new < KERNBASE /\ new >= sz[p]         \* otherwise nothing changes
              /\ Begin(p, [Idle EXCEPT !.op = "grow", !.va = PGROUNDUP(sz[p]), !.old = sz[p],
                                       !.lim = new])
              /\ UNCHANGED <<free, space, sz>>
         ELSE /\ kfree(p, gone)
              /\ sz' = [sz EXCEPT ![p] = IF new = 0 \/ new >= sz[p] THEN @ ELSE new]
              /\ UNCHANGED job

grow(p) ==
  /\ job[p].op = "grow"
  /\ IF job[p].va < PGROUNDUP(job[p].lim)
     THEN IF Short(space[p], job[p].va)
          THEN /\ kfree(p, deallocuvm(space[p], job[p].lim, job[p].old))
               /\ Begin(p, Idle)
               /\ UNCHANGED sz
          ELSE mappage(p, p)
     ELSE /\ sz' = [sz EXCEPT ![p] = job[p].lim]
          /\ Begin(p, Idle)
          /\ UNCHANGED <<free, space>>

\* exit, and wait by the parent: kfree of the stack, freevm.
reap(p) ==
  /\ p # 1 /\ Live(p) /\ job[p].op = "idle"
  /\ Building(p) = {}
  /\ kfree(p, freevm(space[p]) \union {Stack})
  /\ UNCHANGED <<sz, job>>

Next == \E p \in Procs :
  \/ \E c \in Procs : fork(p, c)
  \/ \E image \in Images : exec(p, image)
  \/ \E n \in Deltas : sbrk(p, n)
  \/ setupkvm(p) \/ build(p) \/ exec_bad(p) \/ fork_done(p) \/ exec_done(p) \/ grow(p) \/ reap(p)

Spec == Init /\ [][Next]_vars

-----------------------------------------------------------------------------
\* Every page is on the free list or has one place in one address space: no call
\* that succeeds, or that runs out of memory half way, loses a page or frees one
\* that is in use (kalloc.c, vm.c:227-351, exec.c:110-117, proc.c:197-202).
PagesAccounted ==
  free + MapThenSumSet(LAMBDA o : Cardinality(space[o]), Owners) = NPAGE

\* The user pages of a process are those below its size, each with its page table,
\* so fork finds all of them ("page not present", vm.c:335).  One case is left
\* out: shrinking to zero frees every page but is taken for a failure, and the
\* size stays (proc.c:173).
SizeIsMapped ==
  \A p \in Procs : Live(p) /\ job[p].op # "grow" /\ Building(p) = {} =>
    /\ UserPages(space[p]) \in {{}, {Pte(v) : v \in 0..PGROUNDUP(sz[p])-1}}
    /\ \A x \in UserPages(space[p]) : Tab(x[2]) \in space[p]
=============================================================================
