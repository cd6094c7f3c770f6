------------------------------ MODULE Umalloc -------------------------------
(***************************************************************************)
(* The allocator of user programs (umalloc.c): a circular list of free     *)
(* blocks in the order of their addresses, in units of a header.  Address  *)
(* 0 is the static header base, with size 0; the heap that sbrk extends    *)
(* starts at 2.  A call runs to its end, as a process has one thread.      *)
(***************************************************************************)
EXTENDS Integers, FiniteSets, FiniteSetsExt

CONSTANTS Sizes,       \* units a call asks for, the header included
          CORE,        \* units of a call of morecore (4096 in the code)
          HeapMax      \* where sbrk starts to fail

VARIABLES ptr, size,   \* the headers: next free block, units
          freep,       \* where the next search starts; 0 is base
          started,     \* freep # 0 in the code
          brk,         \* the end of the heap
          taken        \* the blocks the program has

vars == <<ptr, size, freep, started, brk, taken>>

base == 0
Start == 2
Headers == {base} \union Start..HeapMax - 1

Init == /\ ptr = [a \in Headers |-> base] /\ size = [a \in Headers |-> 0]
        /\ freep = base /\ started = FALSE
        /\ brk = Start
        /\ taken = {}

Heap == [ptr |-> ptr, size |-> size, freep |-> freep]

\* The blocks on the free list of h, base included.
RECURSIVE reach(_, _)
reach(h, S) == LET T == S \union {h.ptr[p] : p \in S} IN IF T = S THEN S ELSE reach(h, T)

\* A call leaves heap h and the blocks t taken.  Words that were headers before are
\* data now; nothing reads them as headers, and they are 0 here.
Set(h, t) == LET list == reach(h, {base})
             IN /\ ptr' = [a \in Headers |-> IF a \in list THEN h.ptr[a] ELSE 0]
                /\ size' = [a \in Headers |-> IF a \in list \union t THEN h.size[a] ELSE 0]
                /\ freep' = h.freep
                /\ taken' = t

\* The free block that bp goes behind: the first from freep on that has bp between
\* itself and its successor, or is the last and bp lies outside the list.
RECURSIVE before(_, _, _)
before(h, bp, p) ==
  LET q == h.ptr[p]
  IN IF (bp > p /\ bp < q) \/ (p >= q /\ (bp > p \/ bp < q)) THEN p ELSE before(h, bp, q)

joined_Any(h, a, b) == a + h.size[a] >= b

\* Block a ends where b starts.
joined(h, a, b) == a + h.size[a] = b

\* free puts bp into the list and joins it with its neighbours.
free(h, bp) ==
  LET p == before(h, bp, h.freep)
      q == h.ptr[p]
      up == IF joined(h, bp, q)
            THEN [h EXCEPT !.size[bp] = @ + h.size[q], !.ptr[bp] = h.ptr[q]]
            ELSE [h EXCEPT !.ptr[bp] = q]
      down == IF joined(up, p, bp)
              THEN [up EXCEPT !.size[p] = @ + up.size[bp], !.ptr[p] = up.ptr[bp]]
              ELSE [up EXCEPT !.ptr[p] = bp]
  IN [down EXCEPT !.freep = p]

\* The first free block with n units, searched from the one behind freep; the block
\* before it is returned, or -1 when the search comes back to freep.
RECURSIVE fit(_, _, _)
fit(h, n, prevp) ==
  LET p == h.ptr[prevp]
  IN IF h.size[p] >= n THEN prevp
     ELSE IF p = h.freep THEN -1
     ELSE fit(h, n, p)

\* What stays of a block that n units are cut off from.
rest(h, p, n) == h.size[p] - n

\* Take n units from the end of the block behind prevp, or all of it.
carve(h, n, prevp) ==
  LET p == h.ptr[prevp]
      new == p + rest(h, p, n)
  IN IF h.size[p] = n
     THEN [heap |-> [h EXCEPT !.ptr[prevp] = h.ptr[p], !.freep = prevp], got |-> p]
     ELSE [heap |-> [h EXCEPT !.size = [@ EXCEPT ![p] = rest(h, p, n), ![new] = n],
                              !.freep = prevp], got |-> new]

\* morecore: a new piece of the heap, freed.
core(n) == Max({n, CORE})
morecore(h, n) == free([h EXCEPT !.size[brk] = core(n)], brk)

\* malloc, from the first call on.  After morecore the search goes on behind freep.
malloc(n) ==
  LET h == IF started THEN Heap ELSE [Heap EXCEPT !.ptr[base] = base, !.size[base] = 0]
      more == morecore(h, n)
      done(c) == Set(c.heap, taken \union {c.got})
      in == fit(h, n, h.freep)
  IN /\ started' = TRUE
     /\ \/ in # -1 /\ done(carve(h, n, in)) /\ UNCHANGED brk
        \/ /\ in = -1 /\ brk + core(n) <= HeapMax
           /\ done(carve(more, n, fit(more, n, more.freep)))
           /\ brk' = brk + core(n)
        \/ in = -1 /\ brk + core(n) > HeapMax /\ Set(h, taken) /\ UNCHANGED brk

release(bp) == /\ bp \in taken
               /\ Set(free(Heap, bp), taken \ {bp})
               /\ UNCHANGED <<started, brk>>

Next == (\E n \in Sizes : malloc(n)) \/ (\E bp \in taken : release(bp))

Spec == Init /\ [][Next]_vars

-----------------------------------------------------------------------------
Free == reach(Heap, {base}) \ {base}

Units(a) == a..a + size[a] - 1

\* The heap is cut without overlap or loss into the blocks on the free list and the
\* blocks the program has (umalloc.c:29-43, 75-83).
HeapTiled == /\ UNION {Units(a) : a \in Free \union taken} = Start..brk - 1
             /\ \A a, b \in Free \union taken : a # b => Units(a) \intersect Units(b) = {}
             /\ Free \intersect taken = {}

\* The list is in the order of addresses and no two free blocks touch, so a free finds
\* its place and the search of malloc ends (umalloc.c:29-43).
ListSorted == /\ \A a \in Free \union {base} : ptr[a] > a \/ ptr[a] = base
              /\ \A a, b \in Free : ~joined(Heap, a, b)
              /\ freep \in Free \union {base}
=============================================================================
