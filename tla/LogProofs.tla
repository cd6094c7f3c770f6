------------------------------ MODULE LogProofs -----------------------------
(***************************************************************************)
(* Recovery and crashes keep the invariant of LogInvariant, hence every step *)
(* does; and the safety invariants of Log.tla that follow from it.         *)
(***************************************************************************)
EXTENDS LogWriteProofs

LEMMA InitlogIInv ==
  ASSUME IInv, NEW p \in Ops, initlog(p)
  PROVE  IInv'
<1>0. /\ sys = "down" /\ sys' = "recovering" /\ lh' = hdr
      /\ op' = [op EXCEPT ![p] = IF hdr = <<>> THEN "rec_erase" ELSE "rec_install"]
      /\ UNCHANGED <<home, logblk, hdr, cache, dirty, outstanding, committing, tail, wrote>>
  BY DEF initlog, Goto, disk
<1> USE DEF IInv
<1>1. /\ \A q \in Ops : op[q] = "out" /\ tail[q] = 0
      /\ dirty = {} /\ ~committing /\ outstanding = 0 /\ lh = <<>>
  BY <1>0 DEF PhaseInv, LoopInv
<1>2. /\ op'[p] \in RecoveryPoints /\ \A q \in Ops \ {p} : op'[q] = "out"
      /\ op'[p] = IF hdr = <<>> THEN "rec_erase" ELSE "rec_install"
  BY <1>0, <1>1 DEF RecoveryPoints, TypeOK
<1>3. TypeOK'
  BY <1>0 DEF TypeOK, RecoveryPoints
<1>4. Calling' = {} /\ Calling = {} /\ Committers' = Committers
  BY <1>0, <1>1, <1>2 DEF Calling, Committers, CommitPoints, RecoveryPoints
<1>5. CountInv' /\ ReserveInv' /\ CommitAlone' /\ QuietInv'
  BY <1>0, <1>4, ReserveNone DEF CountInv, CommitAlone, QuietInv
<1>6. SleeperHasWaker' /\ PhaseInv' /\ HeaderInv'
  BY <1>0, <1>1, <1>2 DEF SleeperHasWaker, PhaseInv, HeaderInv, RecoveryPoints
<1>7. LoopInv'
  <2>1. hdr \in Seq(Blocks) /\ (hdr # <<>> => 0 < Len(hdr))
    BY DEF TypeOK
  <2> QED
    BY <1>0, <1>1, <1>2, <2>1 DEF LoopInv, Header
<1>8. DataInv' /\ EvictionSafe' /\ PinInv'
  BY <1>0, <1>1 DEF DataInv, EvictionSafe, PinInv
<1>9. CopyInv'
  BY <1>0, <1>1, <1>2, EmptyHeader DEF CopyInv
<1> QED
  BY <1>3, <1>5, <1>6, <1>7, <1>8, <1>9

\* A step of the recovering process p: every other process has not started.
LEMMA RecovererAlone ==
  ASSUME IInv, NEW p \in Ops, op[p] \in RecoveryPoints
  PROVE  /\ sys = "recovering" /\ lh = hdr /\ dirty = {} /\ ~committing /\ outstanding = 0
         /\ \A q \in Ops \ {p} : op[q] = "out"
<1> USE DEF IInv
<1>1. sys = "recovering"
  BY DEF PhaseInv, TypeOK, RecoveryPoints
<1>2. \A q \in Ops \ {p} : op[q] = "out"
  BY <1>1 DEF PhaseInv, RecoveryPoints
<1> QED
  BY <1>1, <1>2 DEF PhaseInv

LEMMA RecInstallIInv ==
  ASSUME IInv, NEW p \in Ops, install_trans(p, "rec_install", "rec_erase")
  PROVE  IInv'
<1> DEFINE i == tail[p] + 1
<1>0. /\ op[p] = "rec_install"
      /\ op' = [op EXCEPT ![p] = IF i >= Len(lh) THEN "rec_erase" ELSE "rec_install"]
      /\ tail' = [tail EXCEPT ![p] = IF i >= Len(lh) THEN 0 ELSE i]
      /\ home' = [home EXCEPT ![lh[i]] = logblk[i]]
      /\ cache' = [cache EXCEPT ![lh[i]] = logblk[i]]
      /\ dirty' = dirty \ {lh[i]}
      /\ UNCHANGED <<logblk, hdr, lh, outstanding, committing, sys, wrote>>
  BY DEF install_trans, LoopStep, At, Goto, IInv, TypeOK
<1> USE DEF IInv
<1>1. /\ sys = "recovering" /\ lh = hdr /\ dirty = {} /\ ~committing /\ outstanding = 0
      /\ \A q \in Ops \ {p} : op[q] = "out"
  BY <1>0, RecovererAlone DEF RecoveryPoints
<1>2. i \in 1 .. Len(lh) /\ lh[i] \in Blocks
  <2>1. i \in 1 .. Len(lh)
    BY <1>0 DEF LoopInv, TypeOK
  <2> QED
    BY <2>1 DEF TypeOK
<1>3. logblk[i] \in Data
  BY <1>1, <1>2 DEF DataInv
<1>4. /\ op'[p] = "rec_install" => tail'[p] = i
      /\ op'[p] = "rec_erase" => i = Len(lh)
      /\ op'[p] \in {"rec_install", "rec_erase"}
      /\ \A q \in Ops \ {p} : op'[q] = "out"
  BY <1>0, <1>1, <1>2 DEF TypeOK
<1>5. TypeOK'
  BY <1>0, <1>2, <1>3 DEF TypeOK, RecoveryPoints
<1>6. Calling' = {} /\ Calling = {} /\ Committers' = {} /\ Committers = {}
  BY <1>0, <1>1, <1>4 DEF Calling, Committers, CommitPoints
<1>7. CountInv' /\ ReserveInv' /\ CommitAlone' /\ QuietInv' /\ SleeperHasWaker'
  BY <1>0, <1>1, <1>4, <1>6, ReserveNone DEF CountInv, CommitAlone, QuietInv, SleeperHasWaker
<1>8. PhaseInv' /\ HeaderInv'
  BY <1>0, <1>1, <1>4 DEF PhaseInv, HeaderInv, RecoveryPoints
<1>9. LoopInv'
  BY <1>0, <1>1, <1>2 DEF LoopInv, Header, TypeOK
<1>10. DataInv' /\ EvictionSafe' /\ PinInv'
  BY <1>0, <1>1, <1>2, <1>3 DEF DataInv, EvictionSafe, PinInv, TypeOK
<1>11. CopyInv'
  <2>1. \A j \in 1 .. tail[p] : lh[j] # lh[i] /\ lh[j] \in Blocks
    BY <1>2 DEF TypeOK, LoopInv, Header
  <2>2. \A j \in 1 .. tail[p] : home'[lh[j]] = logblk[j]
    BY <1>0, <2>1 DEF CopyInv, TypeOK
  <2>3. \A j \in 1 .. i : home'[lh[j]] = logblk[j]
    BY <1>0, <1>2, <2>2 DEF TypeOK
  <2> QED
    BY <1>0, <1>4, <2>3 DEF CopyInv
<1> QED
  BY <1>5, <1>7, <1>8, <1>9, <1>10, <1>11

LEMMA RecEraseIInv ==
  ASSUME IInv, NEW p \in Ops, rec_erase(p)
  PROVE  IInv'
<1>0. /\ op[p] = "rec_erase" /\ op' = [op EXCEPT ![p] = "out"] /\ sys' = "up"
      /\ lh' = <<>> /\ hdr' = <<>>
      /\ UNCHANGED <<home, logblk, cache, dirty, outstanding, committing, tail, wrote>>
  BY DEF rec_erase, At, Goto
<1> USE DEF IInv
<1>1. /\ sys = "recovering" /\ lh = hdr /\ dirty = {} /\ ~committing /\ outstanding = 0
      /\ \A q \in Ops \ {p} : op[q] = "out"
  BY <1>0, RecovererAlone DEF RecoveryPoints
<1>2. \A q \in Ops : op'[q] = "out"
  BY <1>0, <1>1 DEF TypeOK
<1>3. \A q \in Ops : tail[q] = 0
  BY <1>0, <1>1 DEF LoopInv
<1>4. TypeOK'
  BY <1>0 DEF TypeOK
<1>5. Calling' = {} /\ Calling = {} /\ Committers' = {} /\ Committers = {}
  BY <1>0, <1>1, <1>2 DEF Calling, Committers, CommitPoints
<1>6. CountInv' /\ ReserveInv' /\ CommitAlone' /\ QuietInv' /\ SleeperHasWaker'
  BY <1>0, <1>1, <1>2, <1>5, ReserveNone DEF CountInv, CommitAlone, QuietInv, SleeperHasWaker
<1>7. PhaseInv' /\ HeaderInv' /\ LoopInv'
  BY <1>0, <1>1, <1>2, <1>3, EmptyHeader DEF PhaseInv, HeaderInv, LoopInv, RecoveryPoints
<1>8. DataInv'
  <2>1. \A b \in Blocks : home[b] \in Data
    BY <1>0, <1>1 DEF DataInv, CopyInv
  <2> QED
    BY <1>0, <1>1, <2>1, EmptyHeader DEF DataInv
<1>9. EvictionSafe' /\ PinInv' /\ CopyInv'
  BY <1>0, <1>1, <1>2, EmptyHeader DEF EvictionSafe, PinInv, CopyInv
<1> QED
  BY <1>4, <1>6, <1>7, <1>8, <1>9

\* What a crash can tear is never what a restart would use.
LEMMA TornIsHarmless ==
  ASSUME IInv, Crash
  PROVE  /\ \A i \in 1 .. Len(hdr) : logblk'[i] = logblk[i]
         /\ \A b \in Blocks : (\A i \in 1 .. Len(hdr) : hdr[i] # b) => home'[b] = home[b]
         /\ logblk' \in [LogIndex -> Data \cup {Torn}]
         /\ home' \in [Blocks -> Data \cup {Torn}]
<1> USE DEF IInv
<1>1. \A i \in Writing({"write_log"}) : hdr = <<>>
  <2> SUFFICES ASSUME NEW q \in Ops, op[q] = "write_log" PROVE hdr = <<>>
    BY DEF Writing
  <2> QED
    BY CommitterAlone DEF HeaderInv, CommitPoints
<1>2. \A i \in Writing({"install", "rec_install"}) : lh = hdr /\ i \in 1 .. Len(lh)
  <2> SUFFICES ASSUME NEW q \in Ops, op[q] \in {"install", "rec_install"}
               PROVE  lh = hdr /\ tail[q] + 1 \in 1 .. Len(lh)
    BY DEF Writing
  <2>1. tail[q] + 1 \in 1 .. Len(lh)
    BY DEF LoopInv, TypeOK
  <2>2. CASE op[q] = "install"
    BY <2>1, <2>2, CommitterAlone DEF HeaderInv, CommitPoints
  <2>3. CASE op[q] = "rec_install"
    BY <2>1, <2>3, RecovererAlone DEF RecoveryPoints
  <2> QED
    BY <2>2, <2>3
<1>3. \/ logblk' = logblk
      \/ \E i \in Writing({"write_log"}) : logblk' = [logblk EXCEPT ![i] = Torn]
  BY DEF Crash
<1>4. \/ home' = home
      \/ \E i \in Writing({"install", "rec_install"}) : home' = [home EXCEPT ![lh[i]] = Torn]
  BY DEF Crash
<1>5. /\ \A i \in 1 .. Len(hdr) : logblk'[i] = logblk[i]
      /\ logblk' \in [LogIndex -> Data \cup {Torn}]
  <2>1. CASE logblk' = logblk
    BY <2>1 DEF TypeOK
  <2>2. ASSUME NEW i \in Writing({"write_log"}), logblk' = [logblk EXCEPT ![i] = Torn]
        PROVE  hdr = <<>> /\ logblk' \in [LogIndex -> Data \cup {Torn}]
    BY <1>1, <2>2 DEF TypeOK
  <2> QED
    BY <1>3, <2>1, <2>2, EmptyHeader
<1>6. /\ \A b \in Blocks : (\A i \in 1 .. Len(hdr) : hdr[i] # b) => home'[b] = home[b]
      /\ home' \in [Blocks -> Data \cup {Torn}]
  BY <1>2, <1>4 DEF TypeOK
<1> QED
  BY <1>5, <1>6

LEMMA CrashIInv ==
  ASSUME IInv, Crash
  PROVE  IInv'
<1>0. /\ sys' = "down" /\ cache' = [b \in Blocks |-> NoBuf] /\ dirty' = {}
      /\ lh' = <<>> /\ outstanding' = 0 /\ committing' = FALSE
      /\ op' = [p \in Ops |-> "out"] /\ tail' = [p \in Ops |-> 0]
      /\ wrote' = [p \in Ops |-> {}] /\ hdr' = hdr
  BY DEF Crash
<1> USE DEF IInv
<1>1. TypeOK'
  BY <1>0, TornIsHarmless, EmptyHeader DEF TypeOK
<1>2. Calling' = {} /\ Committers' = {}
  BY <1>0 DEF Calling, Committers, CommitPoints
<1>3. CountInv' /\ ReserveInv' /\ CommitAlone' /\ QuietInv' /\ SleeperHasWaker'
  BY <1>0, <1>2, FS_EmptySet, ReserveNone DEF CountInv, CommitAlone, QuietInv, SleeperHasWaker
<1>4. PhaseInv' /\ HeaderInv'
  BY <1>0 DEF PhaseInv, HeaderInv
<1>5. LoopInv'
  BY <1>0, EmptyHeader DEF LoopInv, Header
<1>6. DataInv'
  BY <1>0, TornIsHarmless DEF DataInv
<1>7. PinInv' /\ CopyInv' /\ EvictionSafe'
  BY <1>0, EmptyHeader DEF PinInv, CopyInv, EvictionSafe
<1> QED
  BY <1>1, <1>3, <1>4, <1>5, <1>6, <1>7

LEMMA NextIInv == IInv /\ [Next]_vars => IInv'
<1> SUFFICES ASSUME IInv, [Next]_vars PROVE IInv'
  OBVIOUS
<1>1. ASSUME NEW p \in Ops, Step(p) PROVE IInv'
  <2>1. CASE begin_op(p)
    BY <2>1, BeginOpIInv
  <2>6. CASE log_test(p)
    BY <2>6, LogTestIInv
  <2>2. ASSUME NEW b \in Blocks, NEW d \in Data, log_write(p, b, d) PROVE IInv'
    BY <2>2, LogWriteIInv
  <2>3. CASE end_op(p)
    BY <2>3, EndOpLastIInv, EndOpIInv
  <2>4. CASE commit(p)
    BY <2>4, WriteLogIInv, WriteHeadIInv, InstallIInv, EraseIInv, EndCommitIInv DEF commit
  <2>5. CASE recover_from_log(p)
    BY <2>5, InitlogIInv, RecInstallIInv, RecEraseIInv DEF recover_from_log
  <2> QED
    BY <1>1, <2>1, <2>2, <2>3, <2>4, <2>5, <2>6 DEF Step
<1>2. ASSUME NEW b \in Blocks, Evict(b) PROVE IInv'
  BY <1>2, EvictIInv
<1>3. CASE Crash
  BY <1>3, CrashIInv
<1>4. CASE UNCHANGED vars
  <2>1. UNCHANGED <<home, logblk, hdr, cache, dirty, lh, outstanding, committing,
                    op, tail, wrote, sys>>
    BY <1>4 DEF vars, disk, mem
  <2>2. TypeOK' /\ CountInv' /\ CommitAlone' /\ PhaseInv' /\ EvictionSafe'
    BY <2>1 DEF IInv, TypeOK, CountInv, CommitAlone, PhaseInv, EvictionSafe, Calling,
       Committers
  <2>3. ReserveInv' /\ QuietInv' /\ SleeperHasWaker'
    BY <2>1 DEF IInv, ReserveInv, QuietInv, SleeperHasWaker, Calling, Committers, Logged
  <2>4. LoopInv' /\ HeaderInv'
    BY <2>1 DEF IInv, LoopInv, HeaderInv, Header
  <2>5. DataInv'
    BY <2>1 DEF IInv, DataInv
  <2>6. PinInv'
    BY <2>1 DEF IInv, PinInv
  <2>7. CopyInv'
    BY <2>1 DEF IInv, CopyInv
  <2> QED
    BY <2>2, <2>3, <2>4, <2>5, <2>6, <2>7 DEF IInv
<1> QED
  BY <1>1, <1>2, <1>3, <1>4 DEF Next

-----------------------------------------------------------------------------
\* The inductive invariant holds throughout, in a log sized for its calls
\* (log.c, all operations).
THEOREM IInvHolds == Sized /\ Spec => []IInv
BY InitIInv, NextIInv, PTL DEF Spec

\* Variables keep their types; in particular no cached block is ever torn.
THEOREM TypeCorrect == Sized /\ Spec => []TypeOK
<1>1. IInv => TypeOK
  BY DEF IInv
<1> QED
  BY <1>1, IInvHolds, PTL

\* commit() runs alone, for any number of processes (end_op, commit).
THEOREM CommitIsAlone == Sized /\ Spec => []CommitAlone
<1>1. IInv => CommitAlone
  BY DEF IInv
<1> QED
  BY <1>1, IInvHolds, PTL

\* If the log is sized for its calls it stays inside its blocks, although
\* log_write tests for a full log before it takes the lock (begin_op, log_write).
THEOREM LogNeverOverruns == Sized /\ Spec => []LogFits
<1>1. IInv => LogFits
  <2> SUFFICES ASSUME IInv, NEW q \in Ops, op[q] \in {"write_log", "install", "rec_install"}
               PROVE  tail[q] + 1 \in LogIndex
    BY DEF LogFits, Writing, IInv, LoopInv, Header
  <2> QED
    BY LogAssumption DEF IInv, LoopInv, Header, LogIndex, TypeOK
<1> QED
  BY <1>1, IInvHolds, PTL

\* The tests of log_write succeed: the reservation leaves room, and the call is counted.
LEMMA RoomAtTest ==
  ASSUME IInv, Roomy, NEW p \in Ops, op[p] = "in"
  PROVE  ~TooBig /\ ~(outstanding < 1)
<1>1. p \in Calling
  BY DEF Calling
<1>2. IsFiniteSet(wrote[p]) /\ Cardinality(wrote[p]) \in Nat /\ Cardinality(wrote[p]) <= OpBlocks
  BY <1>1, FS_CardinalityType DEF IInv, ReserveInv
<1>3. Len(lh) + Cardinality(Spare(Calling, wrote)) <= LOGSIZE /\ Len(lh) \in Nat
  BY <1>1 DEF IInv, ReserveInv, TypeOK
<1>4. /\ MAXOPBLOCKS <= Cardinality(Spare(Calling, wrote)) + Cardinality(wrote[p])
      /\ Cardinality(Spare(Calling, wrote)) \in Nat
  BY <1>1, <1>2, CallingFinite, SpareOf, SpareBound
<1>5. ~TooBig
  BY <1>2, <1>3, <1>4, LogAssumption DEF TooBig, Roomy
<1>6. outstanding \in Nat /\ outstanding # 0
  BY <1>1, CallingFinite, FS_EmptySet DEF IInv, CountInv
<1> QED
  BY <1>5, <1>6

\* With two blocks to spare no call meets "too big a transaction" or another panic of
\* the log, whatever the number of processes and the order of their calls
\* (begin_op, log_write, end_op).
THEOREM NoCallPanics == Roomy /\ Spec => []NoPanic
<1> DEFINE PInv == Roomy /\ IInv /\ NoPanic
<1>1. Roomy => Sized
  BY LogAssumption DEF Roomy, Sized
<1>2. Roomy /\ Init => PInv
  BY <1>1, InitIInv DEF Init, NoPanic
<1>3. PInv /\ [Next]_vars => PInv'
  <2> SUFFICES ASSUME PInv, [Next]_vars PROVE NoPanic'
    BY NextIInv
  <2>1. op = [q \in Ops |-> op[q]]
    BY DEF IInv, TypeOK
  <2>2. ASSUME NEW p \in Ops, Step(p) PROVE NoPanic'
    <3>1. CASE log_test(p)
      BY <2>1, <3>1, RoomAtTest DEF log_test, At, Goto, NoPanic
    <3>2. CASE begin_op(p)
      BY <2>1, <3>2 DEF begin_op, Goto, NoPanic
    <3>3. CASE \E b \in Blocks, d \in Data : log_write(p, b, d)
      BY <2>1, <3>3 DEF log_write, Goto, NoPanic
    <3>4. CASE end_op(p)
      <4>1. op[p] = "in" /\ committing = FALSE
        BY <3>4, NotCommitting DEF end_op, At
      <4> QED
        BY <2>1, <3>4, <4>1 DEF end_op, Goto, WakeupAndGoto, NoPanic
    <3>5. CASE commit(p)
      BY <2>1, <3>5 DEF commit, write_log, write_head, install_trans, erase, end_commit,
         LoopStep, Goto, WakeupAndGoto, NoPanic
    <3>6. CASE recover_from_log(p)
      BY <2>1, <3>6 DEF recover_from_log, initlog, install_trans, rec_erase, LoopStep, Goto, NoPanic
    <3> QED
      BY <2>2, <3>1, <3>2, <3>3, <3>4, <3>5, <3>6 DEF Step
  <2>3. ASSUME NEW b \in Blocks, Evict(b) PROVE NoPanic'
    BY <2>3 DEF Evict, NoPanic
  <2>4. CASE Crash
    BY <2>4 DEF Crash, NoPanic
  <2>5. CASE UNCHANGED vars
    BY <2>5 DEF vars, NoPanic
  <2> QED
    BY <2>2, <2>3, <2>4, <2>5 DEF Next
<1> QED
  BY <1>2, <1>3, PTL DEF Spec

\* A sleeper in begin_op always has a process left to wake it (begin_op, end_op).
THEOREM SleepersHaveWakers == Sized /\ Spec => []SleeperHasWaker
<1>1. IInv => SleeperHasWaker
  BY DEF IInv
<1> QED
  BY <1>1, IInvHolds, PTL

\* Eviction loses nothing (bget's B_DIRTY test, log_write, install_trans).
THEOREM EvictionLosesNothing == Sized /\ Spec => []EvictionSafe
<1>1. IInv => EvictionSafe
  BY DEF IInv
<1> QED
  BY <1>1, IInvHolds, PTL
=============================================================================
