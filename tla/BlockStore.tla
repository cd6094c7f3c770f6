----------------------------- MODULE BlockStore -----------------------------
(***************************************************************************)
(* What the buffer cache promises: every disk block is one register, used  *)
(* by at most one process at a time, and never changes except by its user. *)
(***************************************************************************)
CONSTANTS Procs, Keys, Data, Nobody

VARIABLES val,     \* content of each block
          owner    \* the process using it

Init == val \in [Keys -> Data] /\ owner = [k \in Keys |-> Nobody]

Acquire(p, k) ==
  /\ owner[k] = Nobody
  /\ owner' = [owner EXCEPT ![k] = p]
  /\ UNCHANGED val

Write(p, k, d) ==
  /\ owner[k] = p
  /\ val' = [val EXCEPT ![k] = d]
  /\ UNCHANGED owner

Release(p, k) ==
  /\ owner[k] = p
  /\ owner' = [owner EXCEPT ![k] = Nobody]
  /\ UNCHANGED val

Next ==
  \E p \in Procs, k \in Keys :
    Acquire(p, k) \/ Release(p, k) \/ \E d \in Data : Write(p, k, d)

Spec == Init /\ [][Next]_<<val, owner>>
=============================================================================
