--------------------------- MODULE LogWriteProofs ---------------------------
(***************************************************************************)
(* log_write and the steps of commit keep the invariant of LogInvariant.   *)
(***************************************************************************)
EXTENDS LogInvariant

\* A log of n entries with r reserved, one call of which has written w blocks.
LEMMA ReservedFits ==
  ASSUME NEW n \in Nat, NEW r \in Nat, NEW w \in Nat,
         n + r <= LOGSIZE, MAXOPBLOCKS <= r + w, w <= OpBlocks, Sized
  PROVE  n <= Nlog - 1
BY LogAssumption DEF Sized

LEMMA LogWriteIInv ==
  ASSUME IInv, NEW p \in Ops, NEW b \in Blocks, NEW d \in Data, log_write(p, b, d)
  PROVE  IInv'
<1>0. /\ op[p] = "logging" /\ op' = [op EXCEPT ![p] = "in"]
      /\ b \in wrote[p] \/ Cardinality(wrote[p]) < OpBlocks
      /\ lh' = IF Logged(b) THEN lh ELSE Append(lh, b)
      /\ cache' = [cache EXCEPT ![b] = d] /\ dirty' = dirty \cup {b}
      /\ wrote' = [wrote EXCEPT ![p] = @ \cup {b}]
      /\ UNCHANGED <<home, logblk, hdr, outstanding, committing, sys, tail>>
  BY DEF log_write, At, Goto, disk
<1> USE DEF IInv
\* While p is in a call nobody commits.
<1>1. sys = "up" /\ ~committing /\ Committers = {} /\ p \in Calling
  BY <1>0, UpWhenBusy DEF CommitAlone, Calling, RecoveryPoints
<1>2. \A q \in Ops : op[q] \notin CommitPoints /\ op[q] \notin RecoveryPoints
  BY <1>1 DEF Committers, PhaseInv
<1>3. TypeOK'
  BY <1>0 DEF TypeOK
<1>4. Calling' = Calling /\ Committers' = Committers
  BY <1>0 DEF Calling, Committers, CommitPoints, TypeOK
<1>5. CountInv' /\ CommitAlone' /\ QuietInv' /\ SleeperHasWaker'
  BY <1>0, <1>1, <1>4 DEF CountInv, CommitAlone, QuietInv, SleeperHasWaker, TypeOK
<1>11. \A q \in Ops \ {p} : op'[q] = op[q]
  BY <1>0 DEF TypeOK
<1>12. \A q \in Ops : op'[q] \notin CommitPoints /\ op'[q] \notin RecoveryPoints
  BY <1>0, <1>2, <1>11 DEF CommitPoints, RecoveryPoints, TypeOK
\* The reservation: a block new to the call takes one of its pairs.
<1>13. ReserveInv' /\ Len(lh') <= Nlog - 1
  <2>1. /\ Len(lh) \in Nat /\ Len(lh') \in Nat /\ Len(lh') = IF Logged(b) THEN Len(lh) ELSE Len(lh) + 1
        /\ \A x \in Blocks : Logged(x) => Logged(x)'
        /\ Logged(b)'
    <3>1. CASE Logged(b)
      BY <1>0, <3>1 DEF Logged, TypeOK
    <3>2. CASE ~Logged(b)
      <4>1. /\ Len(lh) \in Nat /\ Len(lh') = Len(lh) + 1 /\ lh'[Len(lh) + 1] = b
            /\ \A i \in 1 .. Len(lh) : lh'[i] = lh[i]
        BY <1>0, <3>2 DEF TypeOK
      <4> QED
        BY <3>2, <4>1 DEF Logged
    <3> QED
      BY <3>1, <3>2
  <2>2. /\ \A q \in Ops \ {p} : wrote'[q] = wrote[q]
        /\ wrote'[p] = wrote[p] \cup {b}
        /\ \A q \in Calling : wrote[q] \subseteq Blocks
    BY <1>0 DEF TypeOK, Calling
  <2>3. /\ IsFiniteSet(wrote[p]) /\ Cardinality(wrote[p]) \in Nat /\ OpBlocks \in Nat
        /\ \A q \in Calling : Cardinality(wrote[q]) \in Nat
    BY <1>1, FS_CardinalityType, LogAssumption DEF ReserveInv
  <2>4. /\ IsFiniteSet(wrote'[p])
        /\ Cardinality(wrote'[p]) = IF b \in wrote[p] THEN Cardinality(wrote[p]) ELSE Cardinality(wrote[p]) + 1
    <3>1. /\ IsFiniteSet(wrote[p] \cup {b})
          /\ Cardinality(wrote[p] \cup {b}) =
               IF b \in wrote[p] THEN Cardinality(wrote[p]) ELSE Cardinality(wrote[p]) + 1
      BY <2>3, FS_AddElement
    <3> QED
      BY <2>2, <3>1
  <2>5. Cardinality(wrote'[p]) <= OpBlocks
    BY <1>0, <1>1, <2>3, <2>4 DEF ReserveInv
  <2>6. \A q \in Calling' : /\ IsFiniteSet(wrote'[q]) /\ Cardinality(wrote'[q]) <= OpBlocks
                            /\ \A x \in wrote'[q] : Logged(x)'
    BY <1>1, <1>4, <2>1, <2>2, <2>4, <2>5 DEF ReserveInv, Calling
  <2>7. Len(lh) + Cardinality(Spare(Calling, wrote)) <= LOGSIZE
    BY <1>1 DEF ReserveInv
  <2>8. /\ Cardinality(Spare(Calling, wrote)) \in Nat
        /\ Cardinality(Spare(Calling, wrote')) \in Nat
    BY CallingFinite, SpareBound
  <2>9. Len(lh') + Cardinality(Spare(Calling, wrote')) <= LOGSIZE
    <3>1. CASE b \in wrote[p]
      <4>1. wrote' = wrote /\ Logged(b)
        BY <1>0, <1>1, <3>1 DEF ReserveInv, TypeOK
      <4> QED
        BY <2>1, <2>7, <4>1
    <3>2. CASE b \notin wrote[p]
      <4>1. Cardinality(wrote[p]) < MAXOPBLOCKS
        BY <1>0, <2>3, <3>2, LogAssumption DEF Sized
      <4>2. Cardinality(Spare(Calling, wrote')) = Cardinality(Spare(Calling, wrote)) - 1
        <5>1. Cardinality(wrote'[p]) = Cardinality(wrote[p]) + 1 /\ \A q \in Calling \ {p} : wrote'[q] = wrote[q]
          BY <2>2, <2>4, <3>2 DEF Calling
        <5>2. IsFiniteSet(Calling)
          BY CallingFinite
        <5> QED
          BY <1>1, <2>3, <4>1, <5>1, <5>2, SpareShrinks
      <4>3. Len(lh') <= Len(lh) + 1
        BY <2>1
      <4> QED
        BY <2>1, <2>7, <2>8, <4>2, <4>3, LogAssumption
    <3> QED
      BY <3>1, <3>2
  <2>10. MAXOPBLOCKS <= Cardinality(Spare(Calling, wrote')) + Cardinality(wrote'[p])
    BY <1>1, <2>3, <2>4, CallingFinite, SpareOf
  <2>11. Len(lh') <= Nlog - 1
    <3>1. Len(lh') \in Nat /\ Sized
      BY <2>1
    <3>2. Cardinality(wrote'[p]) \in Nat
      BY <2>4, FS_CardinalityType
    <3> QED
      BY ONLY <3>1, <3>2, <2>5, <2>8, <2>9, <2>10, ReservedFits
  <2> QED
    BY <1>4, <2>6, <2>9, <2>11 DEF ReserveInv
<1>6. PhaseInv' /\ HeaderInv'
  BY <1>0, <1>1, <1>2, <1>12 DEF PhaseInv, HeaderInv, CommitPoints
<1>7. LoopInv'
  <2>1. Header(lh)'
    <3>1. CASE Logged(b)
      BY <1>0, <1>13, <3>1 DEF LoopInv, Header
    <3>2. CASE ~Logged(b)
      <4>1. /\ Len(lh) \in Nat /\ Len(lh') = Len(lh) + 1 /\ lh'[Len(lh) + 1] = b
            /\ lh' \in Seq(Blocks) /\ \A i \in 1 .. Len(lh) : lh'[i] = lh[i] /\ lh[i] # b
        BY <1>0, <3>2 DEF TypeOK, Logged
      <4>2. \A i, j \in 1 .. Len(lh) : lh[i] = lh[j] => i = j
        BY DEF LoopInv, Header
      <4>3. \A i, j \in 1 .. Len(lh') : lh'[i] = lh'[j] => i = j
        BY ONLY <4>1, <4>2
      <4> QED
        BY <1>13, <4>1, <4>3 DEF Header
    <3> QED
      BY <3>1, <3>2
  <2> QED
    BY <1>0, <1>2, <1>12, <2>1 DEF LoopInv, Header, CommitPoints, RecoveryPoints
<1>8. DataInv' /\ EvictionSafe'
  BY <1>0 DEF DataInv, EvictionSafe, TypeOK
<1>9. PinInv'
  <2>1. \A q \in Ops : /\ op[q] # "erase" /\ op[q] # "install"
                       /\ op'[q] # "erase" /\ op'[q] # "install"
    BY <1>2, <1>12 DEF CommitPoints
  <2>2. CASE Logged(b)
    BY <1>0, <1>1, <2>1, <2>2 DEF PinInv, Logged, TypeOK
  <2>3. CASE ~Logged(b)
    <3>1. /\ lh' \in Seq(Blocks) /\ Len(lh') = Len(lh) + 1 /\ Len(lh) \in Nat
          /\ lh'[Len(lh) + 1] = b
          /\ \A i \in 1 .. Len(lh) : lh'[i] = lh[i]
      BY <1>0, <2>3 DEF TypeOK
    <3>2. \A i \in 1 .. Len(lh') : lh'[i] \in dirty'
      BY <1>0, <1>1, <2>1, <3>1 DEF PinInv
    <3>3. \A x \in dirty' : \E i \in 1 .. Len(lh') : lh'[i] = x
      BY <1>0, <3>1 DEF PinInv
    <3> QED
      BY <2>1, <3>2, <3>3 DEF PinInv
  <2> QED
    BY <2>2, <2>3
<1>10. CopyInv'
  BY <1>12 DEF CopyInv, CommitPoints, RecoveryPoints
<1> QED
  BY <1>3, <1>5, <1>6, <1>7, <1>8, <1>9, <1>10, <1>13

\* A step of the committing process p: nobody else commits or is in a call.
LEMMA CommitterAlone ==
  ASSUME IInv, NEW p \in Ops, op[p] \in CommitPoints
  PROVE  /\ sys = "up" /\ committing /\ Calling = {} /\ Committers = {p}
         /\ \A q \in Ops \ {p} : op[q] \in {"out", "asleep", "woken"}
<1> USE DEF IInv
<1>1. sys = "up"
  BY UpWhenBusy DEF CommitPoints, RecoveryPoints
<1>2. committing /\ Calling = {} /\ Committers = {p}
  BY DEF CommitAlone, Committers
<1>3. \A q \in Ops \ {p} : op[q] \in {"out", "asleep", "woken"}
  BY <1>1, <1>2 DEF Calling, Committers, PhaseInv, TypeOK
<1> QED
  BY <1>1, <1>2, <1>3

LEMMA WriteLogIInv ==
  ASSUME IInv, NEW p \in Ops, write_log(p)
  PROVE  IInv'
<1> DEFINE i == tail[p] + 1
<1>0. /\ op[p] = "write_log"
      /\ op' = [op EXCEPT ![p] = IF i >= Len(lh) THEN "write_head" ELSE "write_log"]
      /\ tail' = [tail EXCEPT ![p] = IF i >= Len(lh) THEN 0 ELSE i]
      /\ logblk' = [logblk EXCEPT ![i] = Read(lh[i])]
      /\ UNCHANGED <<home, hdr, cache, dirty, lh, outstanding, committing, sys, wrote>>
  BY DEF write_log, LoopStep, At, Goto, mem, IInv, TypeOK
<1> USE DEF IInv
<1>1. /\ sys = "up" /\ committing /\ Calling = {} /\ Committers = {p}
      /\ \A q \in Ops \ {p} : op[q] \in {"out", "asleep", "woken"}
  BY <1>0, CommitterAlone DEF CommitPoints
<1>2. i \in 1 .. Len(lh) /\ i \in LogIndex /\ lh[i] \in dirty /\ hdr = <<>>
  <2>1. i \in 1 .. Len(lh) /\ i \in LogIndex
    BY <1>0, LogAssumption DEF LoopInv, Header, TypeOK, LogIndex
  <2>2. hdr = <<>>
    BY <1>0, <1>1 DEF HeaderInv
  <2> QED
    BY <1>0, <2>1, <2>2, CopiedIsPinned
<1>3. Read(lh[i]) = cache[lh[i]] /\ cache[lh[i]] \in Data
  BY <1>2, LogAssumption DEF Read, DataInv
<1>4. TypeOK'
  BY <1>0, <1>2, <1>3 DEF TypeOK, CommitPoints
<1>5. Calling' = Calling /\ Committers' = Committers
  BY <1>0 DEF Calling, Committers, CommitPoints, TypeOK
<1>6. CountInv' /\ ReserveInv' /\ CommitAlone' /\ QuietInv' /\ SleeperHasWaker'
  BY <1>0, <1>1, <1>5, ReserveNone DEF CountInv, CommitAlone, QuietInv, SleeperHasWaker
<1>7. PhaseInv' /\ HeaderInv'
  BY <1>0, <1>1 DEF PhaseInv, HeaderInv, RecoveryPoints, TypeOK
<1>8. LoopInv'
  BY <1>0, <1>1, <1>2 DEF LoopInv, Header, TypeOK
<1>9. DataInv' /\ EvictionSafe' /\ PinInv'
  BY <1>0, <1>1, <1>2 DEF DataInv, EvictionSafe, PinInv, TypeOK
<1>10. CopyInv'
  <2>1. \A j \in 1 .. i : logblk'[j] = cache[lh[j]]
    BY <1>0, <1>2, <1>3 DEF CopyInv, LogIndex, TypeOK, LoopInv, Header
  <2>2. op'[p] = "write_log" => \A j \in 1 .. tail'[p] : logblk'[j] = cache[lh[j]]
    BY <1>0, <1>2, <2>1 DEF TypeOK
  <2>3. op'[p] = "write_head" => \A j \in 1 .. Len(lh) : logblk'[j] = cache[lh[j]]
    BY <1>0, <1>2, <2>1 DEF TypeOK
  <2>4. op'[p] \in {"write_log", "write_head"} /\ \A q \in Ops \ {p} : op'[q] = op[q]
    BY <1>0 DEF TypeOK
  <2> QED
    BY <1>0, <1>1, <2>2, <2>3, <2>4 DEF CopyInv
<1> QED
  BY <1>4, <1>6, <1>7, <1>8, <1>9, <1>10

LEMMA WriteHeadIInv ==
  ASSUME IInv, NEW p \in Ops, write_head(p)
  PROVE  IInv'
<1>0. /\ op[p] = "write_head" /\ op' = [op EXCEPT ![p] = "install"] /\ hdr' = lh
      /\ UNCHANGED <<home, logblk, cache, dirty, lh, outstanding, committing, sys, tail, wrote>>
  BY DEF write_head, At, Goto, mem
<1> USE DEF IInv
<1>1. /\ sys = "up" /\ committing /\ Calling = {} /\ Committers = {p}
      /\ \A q \in Ops \ {p} : op[q] \in {"out", "asleep", "woken"}
  BY <1>0, CommitterAlone DEF CommitPoints
<1>2. hdr = <<>> /\ tail[p] = 0
  BY <1>0, <1>1 DEF HeaderInv, LoopInv
<1>4. TypeOK'
  BY <1>0 DEF TypeOK, CommitPoints
<1>5. Calling' = Calling /\ Committers' = Committers
  BY <1>0 DEF Calling, Committers, CommitPoints, TypeOK
<1>6. CountInv' /\ ReserveInv' /\ CommitAlone' /\ QuietInv' /\ SleeperHasWaker'
  BY <1>0, <1>1, <1>5, ReserveNone DEF CountInv, CommitAlone, QuietInv, SleeperHasWaker
<1>7. PhaseInv' /\ HeaderInv'
  BY <1>0, <1>1 DEF PhaseInv, HeaderInv, RecoveryPoints, TypeOK
<1>8. LoopInv'
  BY <1>0, <1>1, <1>2 DEF LoopInv, Header, TypeOK
<1>9. DataInv'
  <2>1. \A i \in 1 .. Len(lh) : logblk[i] \in Data
    BY <1>0, CopiedIsPinned DEF DataInv, CopyInv
  <2> QED
    BY <1>0, <1>2, <2>1 DEF DataInv
<1>10. EvictionSafe'
  BY <1>0, <1>1 DEF EvictionSafe
<1>11. PinInv'
  BY <1>0, <1>1, <1>2 DEF PinInv, TypeOK
<1>12. CopyInv'
  BY <1>0, <1>1, <1>2 DEF CopyInv, TypeOK
<1> QED
  BY <1>4, <1>6, <1>7, <1>8, <1>9, <1>10, <1>11, <1>12

LEMMA InstallIInv ==
  ASSUME IInv, NEW p \in Ops, install_trans(p, "install", "erase")
  PROVE  IInv'
<1> DEFINE i == tail[p] + 1
<1>0. /\ op[p] = "install"
      /\ op' = [op EXCEPT ![p] = IF i >= Len(lh) THEN "erase" ELSE "install"]
      /\ tail' = [tail EXCEPT ![p] = IF i >= Len(lh) THEN 0 ELSE i]
      /\ home' = [home EXCEPT ![lh[i]] = logblk[i]]
      /\ cache' = [cache EXCEPT ![lh[i]] = logblk[i]]
      /\ dirty' = dirty \ {lh[i]}
      /\ UNCHANGED <<logblk, hdr, lh, outstanding, committing, sys, wrote>>
  BY DEF install_trans, LoopStep, At, Goto, IInv, TypeOK
<1> USE DEF IInv
<1>1. /\ sys = "up" /\ committing /\ Calling = {} /\ Committers = {p}
      /\ \A q \in Ops \ {p} : op[q] \in {"out", "asleep", "woken"}
  BY <1>0, CommitterAlone DEF CommitPoints
<1>2. i \in 1 .. Len(lh) /\ lh[i] \in Blocks /\ hdr = lh
  <2>1. i \in 1 .. Len(lh)
    BY <1>0 DEF LoopInv, TypeOK
  <2>2. hdr = lh
    BY <1>0, <1>1 DEF HeaderInv
  <2> QED
    BY <2>1, <2>2 DEF TypeOK
<1>3. logblk[i] \in Data
  BY <1>2 DEF DataInv
<1>4. TypeOK'
  BY <1>0, <1>2, <1>3 DEF TypeOK, CommitPoints
<1>5. Calling' = Calling /\ Committers' = Committers
  BY <1>0 DEF Calling, Committers, CommitPoints, TypeOK
<1>6. CountInv' /\ ReserveInv' /\ CommitAlone' /\ QuietInv' /\ SleeperHasWaker'
  BY <1>0, <1>1, <1>5, ReserveNone DEF CountInv, CommitAlone, QuietInv, SleeperHasWaker
<1>7. PhaseInv' /\ HeaderInv'
  BY <1>0, <1>1 DEF PhaseInv, HeaderInv, RecoveryPoints, TypeOK
<1>8. LoopInv'
  BY <1>0, <1>1, <1>2 DEF LoopInv, Header, TypeOK
<1>9. DataInv' /\ EvictionSafe'
  BY <1>0, <1>2, <1>3 DEF DataInv, EvictionSafe, TypeOK
<1>10. /\ op'[p] = "install" => tail'[p] = i
       /\ op'[p] = "erase" => i = Len(lh)
       /\ op'[p] \in {"install", "erase"}
       /\ \A q \in Ops \ {p} : op'[q] \in {"out", "asleep", "woken"}
  BY <1>0, <1>1, <1>2 DEF TypeOK
<1>11. \A j \in 1 .. Len(lh) : lh[j] = lh[i] => j = i
  BY <1>2 DEF LoopInv, Header
<1>12. PinInv'
  <2>1. \A j \in 1 .. Len(lh) : j > i => lh[j] \in dirty'
    BY <1>0, <1>2, <1>11, CopiedIsPinned DEF TypeOK
  <2>2. \A b \in dirty' : \E j \in 1 .. Len(lh) : lh[j] = b /\ j > i
    BY <1>0, <1>2, <1>11 DEF PinInv, TypeOK
  <2> QED
    BY <1>0, <1>2, <1>10, <2>1, <2>2 DEF PinInv
<1>13. CopyInv'
  <2>1. \A j \in 1 .. i : home'[lh[j]] = logblk[j]
    <3>1. home'[lh[i]] = logblk[i]
      BY <1>0, <1>2 DEF TypeOK
    <3>2. \A j \in 1 .. tail[p] : lh[j] # lh[i] /\ lh[j] \in Blocks
      BY <1>2, <1>11 DEF TypeOK
    <3>3. \A j \in 1 .. tail[p] : home'[lh[j]] = logblk[j]
      BY <1>0, <3>2 DEF CopyInv, TypeOK
    <3>4. tail[p] \in Nat
      BY DEF TypeOK
    <3>5. \A j \in 1 .. i : j = i \/ j \in 1 .. tail[p]
      BY <3>4
    <3> QED
      BY <3>1, <3>3, <3>5
  <2>2. \A j \in 1 .. Len(lh) : j > i => cache'[lh[j]] = logblk[j]
    <3>1. \A j \in 1 .. Len(lh) : j > i => lh[j] # lh[i] /\ lh[j] \in Blocks
      BY <1>2, <1>11 DEF TypeOK
    <3>2. \A j \in 1 .. Len(lh) : j > i => cache[lh[j]] = logblk[j]
      BY <1>0 DEF CopyInv, TypeOK
    <3> QED
      BY <1>0, <3>1, <3>2 DEF TypeOK
  <2> QED
    BY <1>0, <1>2, <1>10, <2>1, <2>2 DEF CopyInv
<1> QED
  BY <1>4, <1>6, <1>7, <1>8, <1>9, <1>12, <1>13

LEMMA EraseIInv ==
  ASSUME IInv, NEW p \in Ops, erase(p)
  PROVE  IInv'
<1>0. /\ op[p] = "erase" /\ op' = [op EXCEPT ![p] = "finish"]
      /\ lh' = <<>> /\ hdr' = <<>>
      /\ UNCHANGED <<home, logblk, cache, dirty, outstanding, committing, sys, tail, wrote>>
  BY DEF erase, At, Goto
<1> USE DEF IInv
<1>1. /\ sys = "up" /\ committing /\ Calling = {} /\ Committers = {p}
      /\ \A q \in Ops \ {p} : op[q] \in {"out", "asleep", "woken"}
  BY <1>0, CommitterAlone DEF CommitPoints
<1>2. dirty = {} /\ hdr = lh
  BY <1>0, <1>1 DEF HeaderInv, PinInv
<1>4. TypeOK'
  BY <1>0 DEF TypeOK, CommitPoints
<1>5. Calling' = Calling /\ Committers' = Committers
  BY <1>0 DEF Calling, Committers, CommitPoints, TypeOK
<1>6. CountInv' /\ ReserveInv' /\ CommitAlone' /\ QuietInv' /\ SleeperHasWaker'
  BY <1>0, <1>1, <1>5, ReserveNone DEF CountInv, CommitAlone, QuietInv, SleeperHasWaker
<1>7. PhaseInv' /\ HeaderInv'
  BY <1>0, <1>1 DEF PhaseInv, HeaderInv, RecoveryPoints, TypeOK
<1>8. LoopInv'
  BY <1>0, <1>1, EmptyHeader DEF LoopInv, Header, TypeOK
<1>9. DataInv'
  <2>1. \A b \in Blocks : home[b] \in Data
    BY <1>0, <1>2 DEF DataInv, CopyInv
  <2> QED
    BY <1>0, <1>2, <2>1 DEF DataInv
<1>10. EvictionSafe' /\ PinInv'
  BY <1>0, <1>2, EmptyHeader DEF EvictionSafe, PinInv
<1>11. CopyInv'
  <2>1. \A q \in Ops : op'[q] \in {"out", "asleep", "woken", "finish"}
    BY <1>0, <1>1 DEF TypeOK
  <2> QED
    BY <2>1 DEF CopyInv
<1> QED
  BY <1>4, <1>6, <1>7, <1>8, <1>9, <1>10, <1>11

LEMMA EndCommitIInv ==
  ASSUME IInv, NEW p \in Ops, end_commit(p)
  PROVE  IInv'
<1>0. /\ op[p] = "finish" /\ committing' = FALSE
      /\ op' = [q \in Ops |-> IF q = p THEN "out" ELSE IF op[q] = "asleep" THEN "woken" ELSE op[q]]
      /\ UNCHANGED <<home, logblk, hdr, cache, dirty, lh, outstanding, sys, tail, wrote>>
  BY DEF end_commit, At, WakeupAndGoto, disk
<1> USE DEF IInv
<1>1. /\ sys = "up" /\ committing /\ Calling = {} /\ Committers = {p}
      /\ \A q \in Ops \ {p} : op[q] \in {"out", "asleep", "woken"}
  BY <1>0, CommitterAlone DEF CommitPoints
<1>2. lh = <<>> /\ tail[p] = 0
  BY <1>0 DEF LoopInv
<1>3. \A q \in Ops : op'[q] \in {"out", "woken"}
  BY <1>0, <1>1
<1>4. TypeOK'
  BY <1>0, <1>3 DEF TypeOK
<1>5. Calling' = {} /\ Committers' = {}
  BY <1>3 DEF Calling, Committers, CommitPoints
<1>6. CountInv' /\ ReserveInv' /\ CommitAlone' /\ QuietInv' /\ SleeperHasWaker'
  BY <1>0, <1>1, <1>2, <1>3, <1>5, ReserveNone DEF CountInv, CommitAlone, QuietInv, SleeperHasWaker
<1>7. PhaseInv' /\ HeaderInv' /\ LoopInv'
  BY <1>0, <1>1, <1>2, <1>3 DEF PhaseInv, HeaderInv, LoopInv, Header, RecoveryPoints, TypeOK
<1>8. DataInv' /\ EvictionSafe' /\ PinInv' /\ CopyInv'
  BY <1>0, <1>2, <1>3 DEF DataInv, EvictionSafe, PinInv, CopyInv, TypeOK
<1> QED
  BY <1>4, <1>6, <1>7, <1>8
=============================================================================
