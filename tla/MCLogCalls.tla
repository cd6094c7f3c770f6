----------------------------- MODULE MCLogCalls -----------------------------
(***************************************************************************)
(* Two instances of Log, one of them in each behaviour while the other     *)
(* stays down.  "full" is Log with the constants of the cfg: one block     *)
(* more than the log can hold, and a reservation that lets three calls     *)
(* join a transaction, which then fills it.  "calls" has calls of two      *)
(* blocks and a log with room to spare.                                    *)
(***************************************************************************)
EXTENDS MCLog

CONSTANTS c1, c2, e1, e2

VARIABLES part,
          chome, clogblk, chdr, ccache, cdirty, clh, coutstanding, ccommitting, csys, cop, ctail, cwrote

cvars == <<chome, clogblk, chdr, ccache, cdirty, clh, coutstanding, ccommitting, csys, cop, ctail, cwrote>>

C == INSTANCE Log WITH
       Blocks <- {c1, c2}, Data <- {e1, e2}, MAXOPBLOCKS <- 2, OpBlocks <- 2, LOGSIZE <- 4, Nlog <- 5,
       home <- chome, logblk <- clogblk, hdr <- chdr, cache <- ccache, dirty <- cdirty, lh <- clh,
       outstanding <- coutstanding, committing <- ccommitting, sys <- csys, op <- cop,
       tail <- ctail, wrote <- cwrote

ASSUME Sizes == C!LogAssumption

MCInit ==
  /\ Init /\ C!Init
  /\ \/ part = "full" /\ chome = [b \in {c1, c2} |-> e1] /\ clogblk[1] = e1
     \/ part = "calls" /\ \A b \in Blocks : home[b] = logblk[1]

MCNext ==
  /\ UNCHANGED part
  /\ \/ part = "full" /\ Next /\ UNCHANGED cvars
     \/ part = "calls" /\ C!Next /\ UNCHANGED vars

MCSpec == MCInit /\ [][MCNext]_<<part, vars, cvars>>

MCSymmetry == Permutations(MCOps2) \cup Permutations(MCBlocks4) \cup Permutations(MCData)

-----------------------------------------------------------------------------
\* A call that writes several blocks is on the disk as a whole or not at all,
\* wherever the machine stops and whoever shares its transaction
\* (log.c:9-15, 143-174, 192-202).
CallsAtomic == C!Atomic
=============================================================================
