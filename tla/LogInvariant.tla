---------------------------- MODULE LogInvariant ----------------------------
(***************************************************************************)
(* The inductive invariant of Log.tla, for every set of processes, blocks and *)
(* contents and every log that is Sized for what the calls write, and the  *)
(* proofs that Init, eviction, begin_op, end_op and the test of log_write keep *)
(* it.                                                                     *)
(***************************************************************************)
EXTENDS Log, FiniteSetTheorems, TLAPS

\* A log header: distinct home blocks, no more than the log has blocks for.
Header(s) ==
  /\ s \in Seq(Blocks) /\ Len(s) <= Nlog - 1
  /\ \A i, j \in 1 .. Len(s) : s[i] = s[j] => i = j

\* What the phase of the machine says about memory.
PhaseInv ==
  /\ sys = "down" => /\ \A p \in Ops : op[p] = "out"
                     /\ lh = <<>> /\ cache = [b \in Blocks |-> NoBuf]
  /\ sys = "recovering" =>
       /\ lh = hdr
       /\ \E p \in Ops : /\ op[p] \in RecoveryPoints
                         /\ \A q \in Ops \ {p} : op[q] = "out"
  /\ sys = "up" => \A p \in Ops : op[p] \notin RecoveryPoints
  /\ sys # "up" => dirty = {} /\ ~committing /\ outstanding = 0

\* Loop counters stay inside the log while their loop runs, and are 0 outside.
LoopInv ==
  /\ Header(lh) /\ Header(hdr)
  /\ \A p \in Ops : IF op[p] \in {"write_log", "install", "rec_install"}
                    THEN tail[p] < Len(lh) ELSE tail[p] = 0
  /\ \A p \in Ops : /\ op[p] = "finish" => lh = <<>>
                    /\ op[p] = "write_head" => lh # <<>>

\* The header on disk holds the transaction exactly between commit and erasure.
HeaderInv ==
  sys = "up" =>
    hdr = IF \E p \in Ops : op[p] \in {"install", "erase"} THEN lh ELSE <<>>

\* Torn blocks are never part of what a restart would recover.
DataInv ==
  /\ \A i \in 1 .. Len(hdr) : logblk[i] \in Data
  /\ \A b \in Blocks : (\A i \in 1 .. Len(hdr) : hdr[i] # b) => home[b] \in Data
  /\ \A b \in dirty : cache[b] \in Data

\* A block is pinned exactly while it is logged and not yet installed.
PinInv ==
  /\ sys = "up" =>
       \A i \in 1 .. Len(lh) :
         \/ lh[i] \in dirty
         \/ \E p \in Ops : op[p] = "erase" \/ (op[p] = "install" /\ i <= tail[p])
  /\ \A b \in dirty : \E i \in 1 .. Len(lh) :
       /\ lh[i] = b
       /\ \A p \in Ops : op[p] # "erase" /\ (op[p] = "install" => i > tail[p])

\* How far the two copying loops have come.
CopyInv ==
  \A p \in Ops :
    /\ op[p] = "write_log" => \A i \in 1 .. tail[p] : logblk[i] = cache[lh[i]]
    /\ op[p] = "write_head" => \A i \in 1 .. Len(lh) : logblk[i] = cache[lh[i]]
    /\ op[p] = "install" =>
         \A i \in 1 .. Len(lh) : i > tail[p] => logblk[i] = cache[lh[i]]
    /\ op[p] \in {"install", "rec_install"} =>
         \A i \in 1 .. tail[p] : home[lh[i]] = logblk[i]
    /\ op[p] \in {"erase", "rec_erase"} =>
         \A i \in 1 .. Len(lh) : home[lh[i]] = logblk[i]

\* Between transactions nothing is logged.
QuietInv == sys = "up" /\ Calling = {} /\ ~committing => lh = <<>>

\* A reservation of MAXOPBLOCKS covers what a call writes, with as much to
\* spare as the on-disk log has fewer blocks than LOGSIZE.
Sized == OpBlocks <= MAXOPBLOCKS /\ LOGSIZE + OpBlocks < MAXOPBLOCKS + Nlog

\* One block more to spare, for log_write's test, which counts a block that is
\* already logged as if it were new.
Roomy == OpBlocks < MAXOPBLOCKS /\ LOGSIZE + OpBlocks + 1 < MAXOPBLOCKS + Nlog

\* Reserved and not yet used: a pair for each block a call may still add.
Spare(calls, w) == {r \in calls \X (1 .. MAXOPBLOCKS) : r[2] > Cardinality(w[r[1]])}

\* What the calls in progress wrote is logged, and the log has room for the rest.
ReserveInv ==
  /\ \A p \in Calling : /\ IsFiniteSet(wrote[p]) /\ Cardinality(wrote[p]) <= OpBlocks
                         /\ \A b \in wrote[p] : Logged(b)
  /\ Calling # {} => Len(lh) + Cardinality(Spare(Calling, wrote)) <= LOGSIZE

CountInv == outstanding = Cardinality(Calling)

IInv ==
  /\ Sized /\ TypeOK /\ CountInv /\ ReserveInv /\ CommitAlone /\ PhaseInv /\ LoopInv /\ HeaderInv
  /\ DataInv /\ PinInv /\ CopyInv /\ EvictionSafe
  /\ QuietInv /\ SleeperHasWaker
-----------------------------------------------------------------------------
\* Cardinality of the set of calling processes when one enters or leaves.
LEMMA CallingFinite == IsFiniteSet(Calling) /\ Cardinality(Calling) \in Nat
BY LogAssumption, FS_Subset, FS_CardinalityType DEF Calling

LEMMA EmptyHeader == Header(<<>>) /\ Len(<<>>) = 0 /\ <<>> \in Seq(Blocks)
BY LogAssumption DEF Header

\* Reservations change only when a call starts, writes or ends.
LEMMA ReserveSame ==
  ASSUME ReserveInv, Calling' = Calling, wrote' = wrote, lh' = lh
  PROVE  ReserveInv'
BY DEF ReserveInv, Logged

LEMMA ReserveNone == ASSUME Calling' = {} PROVE ReserveInv'
BY DEF ReserveInv

\* No more is reserved than MAXOPBLOCKS for every call in progress.
LEMMA SpareBound ==
  ASSUME NEW C, IsFiniteSet(C), NEW w
  PROVE  /\ IsFiniteSet(Spare(C, w)) /\ Cardinality(Spare(C, w)) \in Nat
         /\ Cardinality(Spare(C, w)) <= Cardinality(C) * MAXOPBLOCKS
<1>1. IsFiniteSet(1 .. MAXOPBLOCKS) /\ Cardinality(1 .. MAXOPBLOCKS) = MAXOPBLOCKS
  <2>1. MAXOPBLOCKS \in Int /\ 1 \in Int /\ ~(1 > MAXOPBLOCKS) /\ MAXOPBLOCKS - 1 + 1 = MAXOPBLOCKS
    BY LogAssumption
  <2> QED
    BY <2>1, FS_Interval
<1>2. /\ IsFiniteSet(C \X (1 .. MAXOPBLOCKS))
      /\ Cardinality(C \X (1 .. MAXOPBLOCKS)) = Cardinality(C) * MAXOPBLOCKS
  BY <1>1, FS_Product
<1>3. Spare(C, w) \subseteq C \X (1 .. MAXOPBLOCKS)
  BY DEF Spare
<1> QED
  BY <1>2, <1>3, FS_Subset, FS_CardinalityType

LEMMA InitIInv == Sized /\ Init => IInv
<1> SUFFICES ASSUME Sized, Init PROVE IInv
  OBVIOUS
<1> USE LogAssumption DEF Init, LogIndex
<1>1. TypeOK
  <2>1. home \in [Blocks -> Data \cup {Torn}] /\ logblk \in [LogIndex -> Data \cup {Torn}]
    OBVIOUS
  <2>2. cache \in [Blocks -> Data \cup {NoBuf}] /\ dirty \subseteq Blocks
    OBVIOUS
  <2>3. hdr \in Seq(Blocks) /\ lh \in Seq(Blocks) /\ wrote \in [Ops -> SUBSET Blocks]
    OBVIOUS
  <2> QED
    BY <2>1, <2>2, <2>3 DEF TypeOK, CommitPoints, RecoveryPoints
<1>2. CountInv /\ ReserveInv
  BY FS_EmptySet DEF CountInv, ReserveInv, Calling
<1>3. CommitAlone /\ PhaseInv /\ QuietInv /\ SleeperHasWaker
  BY DEF CommitAlone, PhaseInv, QuietInv, SleeperHasWaker, Calling, Committers, CommitPoints, RecoveryPoints
<1>4. LoopInv /\ HeaderInv
  BY DEF LoopInv, HeaderInv, Header
<1>5. DataInv /\ PinInv /\ CopyInv /\ EvictionSafe
  BY DEF DataInv, PinInv, CopyInv, EvictionSafe
<1> QED
  BY <1>1, <1>2, <1>3, <1>4, <1>5 DEF IInv

\* A step outside commit and recovery that only moves processes.
LEMMA ControlStep ==
  ASSUME IInv, sys = "up", UNCHANGED <<home, logblk, hdr, cache, dirty, lh, committing, sys, tail>>,
         \A q \in Ops : \A pc \in CommitPoints \cup RecoveryPoints : op'[q] = pc <=> op[q] = pc
  PROVE  /\ PhaseInv' /\ LoopInv' /\ HeaderInv' /\ DataInv' /\ PinInv' /\ CopyInv' /\ EvictionSafe'
         /\ Committers' = Committers
<1> USE DEF IInv
<1>0. \A q \in Ops :
        /\ op'[q] = "write_log" <=> op[q] = "write_log"
        /\ op'[q] = "write_head" <=> op[q] = "write_head"
        /\ op'[q] = "install" <=> op[q] = "install"
        /\ op'[q] = "erase" <=> op[q] = "erase"
        /\ op'[q] = "finish" <=> op[q] = "finish"
        /\ op'[q] = "rec_install" <=> op[q] = "rec_install"
        /\ op'[q] = "rec_erase" <=> op[q] = "rec_erase"
  BY DEF CommitPoints, RecoveryPoints
<1>1. PhaseInv' /\ Committers' = Committers
  BY <1>0 DEF PhaseInv, RecoveryPoints, Committers, CommitPoints
<1>2. LoopInv'
  BY <1>0 DEF LoopInv, Header
<1>3. HeaderInv'
  BY <1>0 DEF HeaderInv
<1>4. DataInv' /\ EvictionSafe'
  BY DEF DataInv, EvictionSafe
<1>5. PinInv'
  BY <1>0 DEF PinInv
<1>6. CopyInv'
  BY <1>0 DEF CopyInv
<1> QED
  BY <1>1, <1>2, <1>3, <1>4, <1>5, <1>6

LEMMA BeginOpIInv ==
  ASSUME IInv, NEW p \in Ops, begin_op(p)
  PROVE  IInv'
<1> USE LogAssumption DEF begin_op, Goto, disk, IInv
<1>1. CASE MustWait
  <2> USE <1>1
  <2>0. /\ op' = [op EXCEPT ![p] = "asleep"] /\ op[p] \in {"out", "woken"} /\ sys = "up"
        /\ UNCHANGED <<home, logblk, hdr, cache, dirty, lh, outstanding, committing, sys, tail, wrote>>
    OBVIOUS
  <2>1. TypeOK'
    BY <2>0 DEF TypeOK
  <2>2. Calling' = Calling
    BY <2>0 DEF Calling, TypeOK
  <2>4. \A q \in Ops : \A pc \in CommitPoints \cup RecoveryPoints : op'[q] = pc <=> op[q] = pc
    BY <2>0 DEF CommitPoints, RecoveryPoints, TypeOK
  <2>5. /\ PhaseInv' /\ LoopInv' /\ HeaderInv' /\ DataInv' /\ PinInv' /\ CopyInv' /\ EvictionSafe'
        /\ Committers' = Committers
    BY <2>0, <2>4, ControlStep
  <2>3. CountInv' /\ ReserveInv' /\ CommitAlone' /\ QuietInv'
    BY <2>0, <2>2, <2>5, ReserveSame DEF CountInv, CommitAlone, QuietInv
  <2>7. SleeperHasWaker'
    <3>1. Calling = {} => outstanding = 0
      BY FS_EmptySet DEF CountInv
    <3>2. Calling = {} /\ ~committing => ~MustWait
      BY <2>0, <3>1 DEF MustWait, QuietInv
    <3> QED
      BY <2>0, <2>2, <3>2 DEF SleeperHasWaker
  <2> QED
    BY <2>1, <2>3, <2>5, <2>7
<1>2. CASE ~MustWait
  <2> USE <1>2
  <2>0. /\ op' = [op EXCEPT ![p] = "in"] /\ op[p] \in {"out", "woken"} /\ sys = "up"
        /\ outstanding' = outstanding + 1 /\ wrote' = [wrote EXCEPT ![p] = {}]
        /\ UNCHANGED <<home, logblk, hdr, cache, dirty, lh, committing, sys, tail>>
    OBVIOUS
  <2>1. TypeOK'
    BY <2>0 DEF TypeOK
  <2>2. Calling' = Calling \cup {p} /\ p \notin Calling
    BY <2>0 DEF Calling, TypeOK
  <2>5. \A q \in Ops : \A pc \in CommitPoints \cup RecoveryPoints : op'[q] = pc <=> op[q] = pc
    BY <2>0 DEF CommitPoints, RecoveryPoints, TypeOK
  <2>6. /\ PhaseInv' /\ LoopInv' /\ HeaderInv' /\ DataInv' /\ PinInv' /\ CopyInv' /\ EvictionSafe'
        /\ Committers' = Committers
    BY <2>0, <2>5, ControlStep
  <2>3. CountInv'
    BY <2>0, <2>2, CallingFinite, FS_AddElement DEF CountInv
  <2>8. ReserveInv'
    <3>1. \A q \in Calling' : /\ IsFiniteSet(wrote'[q]) /\ Cardinality(wrote'[q]) <= OpBlocks
                              /\ \A b \in wrote'[q] : Logged(b)'
      BY <2>0, <2>2, FS_EmptySet DEF ReserveInv, Logged, TypeOK
    <3>2. /\ Cardinality(Spare(Calling', wrote')) <= outstanding' * MAXOPBLOCKS
          /\ Cardinality(Spare(Calling', wrote')) \in Nat
      BY <2>2, <2>3, CallingFinite, FS_AddElement, SpareBound DEF CountInv
    <3>3. Len(lh) + outstanding' * MAXOPBLOCKS <= LOGSIZE
      BY <2>0 DEF MustWait, TypeOK
    <3>4. Len(lh') \in Nat /\ lh' = lh /\ outstanding' * MAXOPBLOCKS \in Nat
      BY <2>0, <2>1 DEF TypeOK
    <3>5. Len(lh') + Cardinality(Spare(Calling', wrote')) <= LOGSIZE
      BY <3>2, <3>3, <3>4
    <3> QED
      BY <3>1, <3>5 DEF ReserveInv
  <2>4. CommitAlone' /\ QuietInv' /\ SleeperHasWaker'
    BY <2>0, <2>2, <2>6 DEF CommitAlone, QuietInv, SleeperHasWaker, MustWait
  <2> QED
    BY <2>1, <2>3, <2>4, <2>6, <2>8
<1> QED
  BY <1>1, <1>2

\* Only a machine that is up has processes outside recovery.
LEMMA UpWhenBusy ==
  ASSUME IInv, NEW q \in Ops, op[q] \notin RecoveryPoints, op[q] # "out"
  PROVE  sys = "up"
BY DEF IInv, PhaseInv, TypeOK

\* The blocks that the committing process still has to copy are pinned.
LEMMA CopiedIsPinned ==
  ASSUME IInv, NEW q \in Ops, op[q] \in {"write_log", "write_head", "install"},
         NEW i \in 1 .. Len(lh), op[q] = "install" => i > tail[q]
  PROVE  lh[i] \in dirty
<1>1. sys = "up"
  BY UpWhenBusy DEF RecoveryPoints
<1>2. \A p \in Ops : op[p] \in {"erase", "install"} => p = q
  BY DEF IInv, CommitAlone, Committers, CommitPoints
<1> QED
  BY <1>1, <1>2 DEF IInv, PinInv, TypeOK

LEMMA EvictIInv ==
  ASSUME IInv, NEW b \in Blocks, Evict(b)
  PROVE  IInv'
<1> USE DEF Evict, disk, IInv
<1>1. TypeOK'
  BY DEF TypeOK
<1>2. CountInv' /\ ReserveInv' /\ CommitAlone' /\ QuietInv' /\ SleeperHasWaker'
  BY ReserveSame DEF CountInv, CommitAlone, QuietInv, SleeperHasWaker, Calling, Committers
<1>3. PhaseInv' /\ LoopInv' /\ HeaderInv'
  BY DEF PhaseInv, LoopInv, HeaderInv, Header, RecoveryPoints, TypeOK
<1>4. DataInv' /\ PinInv' /\ EvictionSafe'
  BY DEF DataInv, PinInv, EvictionSafe, TypeOK
<1>5. CopyInv'
  <2> SUFFICES ASSUME NEW q \in Ops,
                      op[q] \in {"write_log", "write_head", "install"},
                      NEW i \in 1 .. Len(lh), op[q] = "install" => i > tail[q]
               PROVE  lh[i] # b
    BY DEF CopyInv, TypeOK, LoopInv
  <2> QED
    BY CopiedIsPinned
<1> QED
  BY <1>1, <1>2, <1>3, <1>4, <1>5

LEMMA LogTestIInv ==
  ASSUME IInv, NEW p \in Ops, log_test(p)
  PROVE  IInv'
<1>0. /\ op' = [op EXCEPT ![p] = IF TooBig \/ outstanding < 1 THEN "panic" ELSE "logging"] /\ op[p] = "in"
      /\ UNCHANGED <<home, logblk, hdr, cache, dirty, lh, outstanding, committing, sys, tail, wrote>>
  BY DEF log_test, At, Goto, disk, mem
<1> USE DEF IInv
<1>1. TypeOK'
  BY <1>0 DEF TypeOK
<1>2. Calling' = Calling
  BY <1>0 DEF Calling, TypeOK
<1>3. \A q \in Ops : \A pc \in CommitPoints \cup RecoveryPoints : op'[q] = pc <=> op[q] = pc
  BY <1>0 DEF CommitPoints, RecoveryPoints, TypeOK
<1>4. sys = "up"
  BY <1>0, UpWhenBusy DEF RecoveryPoints
<1>5. /\ PhaseInv' /\ LoopInv' /\ HeaderInv' /\ DataInv' /\ PinInv' /\ CopyInv' /\ EvictionSafe'
      /\ Committers' = Committers
  BY <1>0, <1>3, <1>4, ControlStep
<1>6. CountInv' /\ ReserveInv' /\ CommitAlone' /\ QuietInv' /\ SleeperHasWaker'
  BY <1>0, <1>2, <1>5, ReserveSame DEF CountInv, CommitAlone, QuietInv, SleeperHasWaker, TypeOK
<1> QED
  BY <1>1, <1>5, <1>6

\* A call that has written k blocks leaves MAXOPBLOCKS - k of its reservation.
LEMMA SpareOf ==
  ASSUME NEW C, IsFiniteSet(C), NEW w, NEW p \in C, NEW k \in Nat, Cardinality(w[p]) = k
  PROVE  MAXOPBLOCKS <= Cardinality(Spare(C, w)) + k
<1> DEFINE mine == {p} \X ((k + 1) .. MAXOPBLOCKS)
<1>1. MAXOPBLOCKS \in Nat /\ Cardinality(Spare(C, w)) \in Nat /\ IsFiniteSet(Spare(C, w))
  BY LogAssumption, SpareBound
<1>2. CASE k + 1 > MAXOPBLOCKS
  BY <1>1, <1>2
<1>3. CASE ~(k + 1 > MAXOPBLOCKS)
  <2>1. /\ IsFiniteSet((k + 1) .. MAXOPBLOCKS)
        /\ Cardinality((k + 1) .. MAXOPBLOCKS) = MAXOPBLOCKS - k
    <3>1. k + 1 \in Int /\ MAXOPBLOCKS \in Int /\ MAXOPBLOCKS - (k + 1) + 1 = MAXOPBLOCKS - k
      BY <1>1
    <3> QED
      BY <3>1, <1>3, FS_Interval
  <2>2. IsFiniteSet({p}) /\ Cardinality({p}) = 1
    BY FS_Singleton
  <2>3. IsFiniteSet(mine) /\ Cardinality(mine) = Cardinality({p}) * Cardinality((k + 1) .. MAXOPBLOCKS)
    BY <2>1, <2>2, FS_Product, Zenon
  <2>4. mine \subseteq Spare(C, w)
    <3>1. \A n \in (k + 1) .. MAXOPBLOCKS : n \in 1 .. MAXOPBLOCKS /\ n > k
      BY <1>1
    <3> QED
      BY <3>1 DEF Spare
  <2>5. Cardinality(mine) <= Cardinality(Spare(C, w))
    BY <1>1, <2>4, FS_Subset
  <2> HIDE DEF mine
  <2>6. Cardinality(mine) = MAXOPBLOCKS - k
    BY <1>1, <2>1, <2>2, <2>3
  <2> QED
    BY <1>1, <2>5, <2>6
<1> QED
  BY <1>2, <1>3

\* Writing a new block uses up one pair.
LEMMA SpareShrinks ==
  ASSUME NEW C, IsFiniteSet(C), NEW w, NEW v, NEW p \in C, NEW k \in Nat,
         Cardinality(w[p]) = k, Cardinality(v[p]) = k + 1, k < MAXOPBLOCKS,
         \A q \in C \ {p} : v[q] = w[q], \A q \in C : Cardinality(w[q]) \in Nat
  PROVE  Cardinality(Spare(C, v)) = Cardinality(Spare(C, w)) - 1
<1>1. <<p, k + 1>> \in Spare(C, w)
  BY LogAssumption DEF Spare
<1>2. Spare(C, v) = Spare(C, w) \ {<<p, k + 1>>}
  <2>1. ASSUME NEW q \in C, NEW n \in 1 .. MAXOPBLOCKS
        PROVE  n > Cardinality(v[q]) <=> n > Cardinality(w[q]) /\ <<q, n>> # <<p, k + 1>>
    BY LogAssumption
  <2> QED
    BY <2>1 DEF Spare
<1>3. IsFiniteSet(Spare(C, w))
  BY SpareBound
<1>4. Cardinality(Spare(C, w) \ {<<p, k + 1>>}) = Cardinality(Spare(C, w)) - 1
  BY <1>1, <1>3, FS_RemoveElement
<1> QED
  BY <1>2, <1>4

\* No commit is under way when a call ends.
LEMMA NotCommitting ==
  ASSUME IInv, NEW p \in Ops, op[p] = "in"
  PROVE  committing = FALSE
BY DEF IInv, TypeOK, CommitAlone, Calling

LEMMA EndOpLastIInv ==
  ASSUME IInv, NEW p \in Ops, end_op(p), outstanding = 1
  PROVE  IInv'
<1> DEFINE pc == IF lh = <<>> THEN "finish" ELSE "write_log"
<1>a. op[p] = "in" /\ committing = FALSE
  BY NotCommitting DEF end_op, At
<1>b. committing' = TRUE
  BY <1>a, Zenon DEF end_op
<1>0. /\ op[p] = "in" /\ op' = [op EXCEPT ![p] = pc]
      /\ outstanding' = 0 /\ committing' = TRUE /\ tail' = [tail EXCEPT ![p] = 0]
      /\ UNCHANGED <<home, logblk, hdr, cache, dirty, lh, sys, wrote>>
  BY <1>a, <1>b DEF end_op, At, Goto, disk
<1> USE DEF IInv
<1>1. sys = "up" /\ Committers = {} /\ p \in Calling
  BY <1>0, UpWhenBusy DEF CommitAlone, Calling, RecoveryPoints
<1>2. \A q \in Ops : op[q] \notin CommitPoints /\ op[q] \notin RecoveryPoints
  BY <1>1 DEF Committers, PhaseInv
<1>3. Calling = {p}
  <2>1. \E x : Calling = {x}
    BY CallingFinite, FS_Singleton DEF CountInv
  <2> QED
    BY <1>1, <2>1
<1>4. Calling' = {} /\ Committers' = {p}
  BY <1>0, <1>2, <1>3 DEF Calling, Committers, CommitPoints, TypeOK
<1>5. TypeOK'
  BY <1>0 DEF TypeOK, CommitPoints
<1>6. CountInv' /\ ReserveInv'
  BY <1>0, <1>4, FS_EmptySet, ReserveNone DEF CountInv
<1>7. CommitAlone' /\ QuietInv' /\ SleeperHasWaker'
  BY <1>0, <1>4 DEF CommitAlone, QuietInv, SleeperHasWaker
<1>8. PhaseInv' /\ HeaderInv'
  BY <1>0, <1>1, <1>2 DEF PhaseInv, HeaderInv, CommitPoints, RecoveryPoints, TypeOK
<1>9. LoopInv'
  BY <1>0, <1>2 DEF LoopInv, Header, CommitPoints, RecoveryPoints, TypeOK
<1>10. DataInv' /\ EvictionSafe' /\ PinInv'
  BY <1>0, <1>2 DEF DataInv, EvictionSafe, PinInv, TypeOK, CommitPoints
<1>11. CopyInv'
  BY <1>0, <1>2 DEF CopyInv, CommitPoints, RecoveryPoints, TypeOK
<1> QED
  BY <1>5, <1>6, <1>7, <1>8, <1>9, <1>10, <1>11

LEMMA EndOpIInv ==
  ASSUME IInv, NEW p \in Ops, end_op(p), outstanding # 1
  PROVE  IInv'
<1>a. op[p] = "in" /\ committing = FALSE
  BY NotCommitting DEF end_op, At
<1>b. committing' = committing
  BY <1>a, Zenon DEF end_op
<1>0. /\ op[p] = "in"
      /\ op' = [q \in Ops |-> IF q = p THEN "out" ELSE IF op[q] = "asleep" THEN "woken" ELSE op[q]]
      /\ outstanding' = outstanding - 1 /\ tail' = [tail EXCEPT ![p] = 0]
      /\ UNCHANGED <<home, logblk, hdr, cache, dirty, lh, committing, sys, wrote>>
  BY <1>a, <1>b DEF end_op, At, WakeupAndGoto, disk
<1> USE DEF IInv
<1>1. sys = "up" /\ ~committing /\ p \in Calling
  BY <1>0, UpWhenBusy DEF CommitAlone, Calling, RecoveryPoints
<1>2. Calling' = Calling \ {p}
  BY <1>0 DEF Calling, TypeOK
<1>3. outstanding \in Nat /\ Cardinality(Calling') = outstanding - 1 /\ outstanding # 0
  BY <1>1, <1>2, CallingFinite, FS_RemoveElement, FS_EmptySet DEF CountInv
<1>4. Calling' # {}
  BY <1>3, FS_EmptySet
<1>5. TypeOK'
  BY <1>0, <1>3 DEF TypeOK
<1>7. /\ \A q \in Ops : \A pc \in CommitPoints \cup RecoveryPoints : op'[q] = pc <=> op[q] = pc
      /\ tail' = tail
  BY <1>0 DEF CommitPoints, RecoveryPoints, TypeOK, LoopInv
<1>8. /\ PhaseInv' /\ LoopInv' /\ HeaderInv' /\ DataInv' /\ PinInv' /\ CopyInv' /\ EvictionSafe'
      /\ Committers' = Committers
  BY <1>0, <1>1, <1>7, ControlStep
<1>9. ReserveInv'
  <2>1. Spare(Calling', wrote) \subseteq Spare(Calling, wrote)
    BY <1>2 DEF Spare
  <2>2. /\ Cardinality(Spare(Calling', wrote)) <= Cardinality(Spare(Calling, wrote))
        /\ Cardinality(Spare(Calling', wrote)) \in Nat
        /\ Cardinality(Spare(Calling, wrote)) \in Nat
    BY <2>1, CallingFinite, SpareBound, FS_Subset, FS_CardinalityType
  <2>3. Len(lh) + Cardinality(Spare(Calling, wrote)) <= LOGSIZE /\ Len(lh) \in Nat
    BY <1>1 DEF ReserveInv, TypeOK
  <2>4. Len(lh) + Cardinality(Spare(Calling', wrote)) <= LOGSIZE
    BY <2>2, <2>3, LogAssumption
  <2> QED
    BY <1>0, <1>2, <2>4 DEF ReserveInv, Logged
<1>6. CountInv' /\ CommitAlone' /\ QuietInv' /\ SleeperHasWaker'
  BY <1>0, <1>1, <1>2, <1>3, <1>4, <1>8 DEF CountInv, CommitAlone, QuietInv, SleeperHasWaker
<1> QED
  BY <1>5, <1>6, <1>8, <1>9
=============================================================================
