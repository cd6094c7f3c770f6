---------------------------- MODULE BoundedFifo ----------------------------
(***************************************************************************)
(* What a pipe promises: a queue of at most Size bytes.  A writer has a    *)
(* message to write; some bytes at a time move from its front to the queue *)
(* until nothing is left or the writer gives up.  A reader takes some      *)
(* bytes from the front of the queue.                                      *)
(***************************************************************************)
EXTENDS Naturals, Sequences

CONSTANTS Writers, Readers, Messages, Size

VARIABLES q,     \* bytes in the pipe
          left,  \* what each writer still has to write
          got    \* what each reader was given by its last read

Init == /\ q = <<>>
        /\ left = [p \in Writers |-> <<>>] /\ got = [p \in Readers |-> <<>>]

Write(p) ==
  /\ \E s \in Messages : left' = [left EXCEPT ![p] = s]
  /\ UNCHANGED <<q, got>>

Put(p) ==
  /\ \E k \in 0 .. Len(left[p]) :
       /\ Len(q) + k <= Size
       /\ q' = q \o SubSeq(left[p], 1, k)
       /\ \/ left' = [left EXCEPT ![p] = SubSeq(@, k + 1, Len(@))]
          \/ left' = [left EXCEPT ![p] = <<>>]
  /\ UNCHANGED got

Get(p) ==
  /\ \E k \in 0 .. Len(q) :
       /\ got' = [got EXCEPT ![p] = SubSeq(q, 1, k)]
       /\ q' = SubSeq(q, k + 1, Len(q))
  /\ UNCHANGED left

Next == (\E p \in Writers : Write(p) \/ Put(p)) \/ \E p \in Readers : Get(p)

Spec == Init /\ [][Next]_<<q, left, got>>
=============================================================================
