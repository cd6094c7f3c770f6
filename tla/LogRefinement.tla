---------------------------- MODULE LogRefinement ---------------------------
(***************************************************************************)
(* The log implements the atomic store of JournaledStore.tla: each step of *)
(* Log.tla is one step of the store or none.                               *)
(***************************************************************************)
EXTENDS LogProofs

\* What Replay returns for a block in the header and for any other block.
LEMMA ReplayIs ==
  ASSUME NEW h, NEW l, NEW s, Header(s)
  PROVE  /\ \A i \in 1 .. Len(s) : Replay(h, l, s)[s[i]] = l[i]
         /\ \A b \in Blocks : (\A i \in 1 .. Len(s) : s[i] # b) => Replay(h, l, s)[b] = h[b]
         /\ Replay(h, l, s) = [b \in Blocks |-> Replay(h, l, s)[b]]
<1>1. ASSUME NEW i \in 1 .. Len(s) PROVE Replay(h, l, s)[s[i]] = l[i]
  <2>1. s[i] \in Blocks
    BY DEF Header
  <2>2. (CHOOSE j \in 1 .. Len(s) : s[j] = s[i]) = i
    BY DEF Header
  <2> QED
    BY <2>1, <2>2 DEF Replay
<1> QED
  BY <1>1 DEF Replay

\* Replay depends only on the log under the header and the home blocks outside it.
LEMMA ReplaySame ==
  ASSUME NEW h, NEW l, NEW s, Header(s), NEW h2, NEW l2,
         \A i \in 1 .. Len(s) : l2[i] = l[i],
         \A b \in Blocks : (\A i \in 1 .. Len(s) : s[i] # b) => h2[b] = h[b]
  PROVE  Replay(h2, l2, s) = Replay(h, l, s)
<1>1. \A b \in Blocks : Replay(h2, l2, s)[b] = Replay(h, l, s)[b]
  BY ReplayIs
<1> QED
  BY <1>1, ReplayIs

\* The same, when the log does not change.
LEMMA ReplaySameLog ==
  ASSUME NEW h, NEW l, NEW s, Header(s), NEW h2,
         \A b \in Blocks : (\A i \in 1 .. Len(s) : s[i] # b) => h2[b] = h[b]
  PROVE  Replay(h2, l, s) = Replay(h, l, s)
BY ReplaySame

\* An empty header replays nothing.
LEMMA ReplayEmpty ==
  ASSUME NEW h \in [Blocks -> Data \cup {Torn}], NEW l
  PROVE  Replay(h, l, <<>>) = h
BY EmptyHeader DEF Replay

\* A step that the store does not see.
Stutter == Recovered' = Recovered /\ Current' = Current /\ Calling' = Calling

LEMMA InitRefines == Init => Store!Init
<1> SUFFICES ASSUME Init PROVE Store!Init
  OBVIOUS
<1>1. Recovered = home /\ home \in [Blocks -> Data]
  BY ReplayEmpty DEF Init, Recovered
<1>2. Current = Recovered
  BY DEF Current, Init
<1>3. Calling = {}
  BY DEF Calling, Init
<1> QED
  BY <1>1, <1>2, <1>3 DEF Store!Init

LEMMA CallRefines ==
  ASSUME IInv, NEW p \in Ops, begin_op(p) \/ end_op(p)
  PROVE  Store!Begin(p) \/ Store!End(p) \/ Stutter
<1>0. /\ sys = "up" /\ UNCHANGED <<home, logblk, hdr, cache, sys>>
  BY UpWhenBusy DEF begin_op, end_op, disk, At, RecoveryPoints
<1>1. Recovered' = Recovered /\ Current' = Current
  BY <1>0 DEF Recovered, Replay, Current, Read
<1>2. CASE begin_op(p) /\ MustWait
  <2>1. Calling' = Calling
    BY <1>2 DEF begin_op, Goto, Calling, IInv, TypeOK
  <2> QED
    BY <1>1, <2>1 DEF Stutter
<1>3. CASE begin_op(p) /\ ~MustWait
  <2>1. p \notin Calling /\ Calling' = Calling \cup {p}
    BY <1>3 DEF begin_op, Goto, Calling, IInv, TypeOK
  <2> QED
    BY <1>1, <2>1 DEF Store!Begin
<1>4. CASE end_op(p)
  <2>1. p \in Calling /\ Calling' = Calling \ {p}
    <3>0. committing = FALSE
      BY <1>4, NotCommitting DEF end_op, At
    <3>1. CASE outstanding = 1
      BY <1>4, <3>0, <3>1 DEF end_op, At, Goto, Calling, IInv, TypeOK
    <3>2. CASE outstanding # 1
      BY <1>4, <3>0, <3>2 DEF end_op, At, WakeupAndGoto, Calling, IInv, TypeOK
    <3> QED
      BY <3>1, <3>2
  <2> QED
    BY <1>1, <2>1 DEF Store!End
<1> QED
  BY <1>2, <1>3, <1>4

LEMMA LogTestRefines ==
  ASSUME IInv, NEW p \in Ops, log_test(p)
  PROVE  Stutter
<1>1. UNCHANGED <<home, logblk, hdr, cache, sys>> /\ Calling' = Calling
  BY DEF log_test, disk, mem, At, Goto, Calling, IInv, TypeOK
<1> QED
  BY <1>1 DEF Stutter, Recovered, Replay, Current, Read

LEMMA LogWriteRefines ==
  ASSUME IInv, NEW p \in Ops, NEW b \in Blocks, NEW d \in Data, log_write(p, b, d)
  PROVE  Store!Write(p, b, d)
<1>0. /\ sys = "up" /\ UNCHANGED <<home, logblk, hdr, sys>> /\ op[p] = "logging"
  BY UpWhenBusy DEF log_write, disk, At, RecoveryPoints
<1>1. Recovered' = Recovered /\ p \in Calling
  BY <1>0 DEF Recovered, Replay, Calling
<1>2. Calling' = Calling
  BY <1>0 DEF log_write, Goto, Calling, IInv, TypeOK
<1>3. cache' = [cache EXCEPT ![b] = d]
  BY DEF log_write
<1>4. Current' = [Current EXCEPT ![b] = d]
  BY <1>0, <1>3, LogAssumption DEF Current, Read, IInv, TypeOK
<1> QED
  BY <1>1, <1>2, <1>4 DEF Store!Write

LEMMA CommitRefines ==
  ASSUME IInv, NEW p \in Ops, commit(p)
  PROVE  Store!Commit \/ Stutter
<1> USE DEF IInv
<1>0. /\ op[p] \in CommitPoints /\ sys = "up" /\ sys' = sys /\ Calling = {}
      /\ \A q \in Ops \ {p} : op[q] \in {"out", "asleep", "woken"}
  <2>1. op[p] \in CommitPoints /\ sys' = sys
    BY DEF commit, write_log, write_head, install_trans, erase, end_commit, LoopStep, At, CommitPoints, mem
  <2> QED
    BY <2>1, CommitterAlone
<1>1. Calling' = {}
  <2>1. \A q \in Ops : op'[q] \notin {"in", "logging", "panic"}
    <3>1. CASE write_log(p) \/ install_trans(p, "install", "erase")
      <4>1. \E x \in {"write_log", "write_head", "install", "erase"} : op' = [op EXCEPT ![p] = x]
        BY <3>1 DEF write_log, install_trans, LoopStep, Goto
      <4> QED
        BY <1>0, <4>1 DEF TypeOK
    <3>2. CASE write_head(p) \/ erase(p)
      BY <1>0, <3>2 DEF write_head, erase, Goto, TypeOK
    <3>3. CASE end_commit(p)
      BY <1>0, <3>3 DEF end_commit, WakeupAndGoto
    <3> QED
      BY <3>1, <3>2, <3>3 DEF commit
  <2> QED
    BY <2>1 DEF Calling
<1>2. CASE write_log(p)
  <2>1. hdr = <<>> /\ UNCHANGED <<home, hdr, cache>>
    BY <1>0, <1>2 DEF write_log, LoopStep, At, HeaderInv, mem
  <2>2. Recovered' = Recovered
    <3>1. Replay(home, logblk, <<>>) = home
      BY ReplayEmpty DEF TypeOK
    <3>2. Replay(home, logblk', <<>>) = home
      BY ReplayEmpty DEF TypeOK
    <3> QED
      BY <2>1, <3>1, <3>2 DEF Recovered
  <2> QED
    BY <1>0, <1>1, <2>1, <2>2 DEF Stutter, Current, Read
<1>3. CASE write_head(p)
  <2>1. /\ op[p] = "write_head" /\ hdr' = lh /\ UNCHANGED <<home, logblk, cache>>
    BY <1>3 DEF write_head, At, mem
  <2>2. \A b \in Blocks : Replay(home, logblk, lh)[b] = Read(b)
    <3> SUFFICES ASSUME NEW b \in Blocks PROVE Replay(home, logblk, lh)[b] = Read(b)
      OBVIOUS
    <3>1. Header(lh)
      BY DEF LoopInv
    <3>2. CASE \E i \in 1 .. Len(lh) : lh[i] = b
      <4>1. PICK i \in 1 .. Len(lh) : lh[i] = b
        BY <3>2
      <4>2. logblk[i] = cache[b] /\ cache[b] \in Data
        BY <2>1, <4>1, CopiedIsPinned DEF CopyInv, DataInv
      <4> QED
        BY <3>1, <4>1, <4>2, ReplayIs, LogAssumption DEF Read
    <3>3. CASE \A i \in 1 .. Len(lh) : lh[i] # b
      <4>1. Read(b) = home[b]
        BY <3>3 DEF PinInv, EvictionSafe, Read
      <4> QED
        BY <3>1, <3>3, <4>1, ReplayIs
    <3> QED
      BY <3>2, <3>3
  <2>3. Recovered' = Current /\ Current' = Current
    <3>1. Current = [b \in Blocks |-> Read(b)] /\ Current' = Current
      BY <1>0, <2>1 DEF Current, Read
    <3>2. Recovered' = Replay(home, logblk, lh)
      BY <2>1 DEF Recovered
    <3>3. Replay(home, logblk, lh) = [b \in Blocks |-> Replay(home, logblk, lh)[b]]
      BY DEF Replay
    <3> QED
      BY <2>2, <3>1, <3>2, <3>3
  <2> QED
    BY <1>0, <1>1, <2>3 DEF Store!Commit
<1>4. CASE install_trans(p, "install", "erase")
  <2> DEFINE i == tail[p] + 1
  <2>1. /\ op[p] = "install" /\ UNCHANGED <<logblk, hdr>>
        /\ home' = [home EXCEPT ![lh[i]] = logblk[i]]
        /\ cache' = [cache EXCEPT ![lh[i]] = logblk[i]]
    BY <1>4 DEF install_trans, LoopStep, At
  <2>2. hdr = lh /\ i \in 1 .. Len(lh) /\ lh[i] \in Blocks /\ i > tail[p]
    <3>1. hdr = lh
      BY <1>0, <2>1 DEF HeaderInv
    <3>2. i \in 1 .. Len(lh) /\ i > tail[p]
      BY <2>1 DEF LoopInv, TypeOK
    <3> QED
      BY <3>1, <3>2 DEF TypeOK
  <2>3. \A b \in Blocks : (\A j \in 1 .. Len(hdr) : hdr[j] # b) => home'[b] = home[b]
    BY <2>1, <2>2 DEF TypeOK
  <2>4. Recovered' = Recovered
    <3>1. Header(hdr)
      BY DEF LoopInv
    <3>2. Replay(home', logblk, hdr) = Replay(home, logblk, hdr)
      BY ONLY <2>3, <3>1, ReplaySameLog
    <3> QED
      BY <2>1, <3>2 DEF Recovered
  <2>5. logblk[i] = cache[lh[i]] /\ logblk[i] \in Data
    BY <2>1, <2>2 DEF CopyInv, DataInv
  <2>6. cache' = cache
    BY <2>1, <2>2, <2>5 DEF TypeOK
  <2>7. \A b \in Blocks : Read(b)' = Read(b)
    BY <2>1, <2>2, <2>5, <2>6, LogAssumption DEF Read, TypeOK
  <2> QED
    BY <1>0, <1>1, <2>4, <2>7 DEF Stutter, Current
<1>5. CASE erase(p)
  <2>1. op[p] = "erase" /\ hdr' = <<>> /\ UNCHANGED <<home, logblk, cache>>
    BY <1>5 DEF erase, At
  <2>2. hdr = lh
    BY <1>0, <2>1 DEF HeaderInv
  <2>3. \A b \in Blocks : Recovered[b] = home[b]
    BY <2>1, <2>2, ReplayIs DEF Recovered, CopyInv, LoopInv
  <2>4. Recovered' = Recovered
    <3>1. Recovered = [b \in Blocks |-> Recovered[b]]
      BY ReplayIs DEF Recovered, LoopInv
    <3>2. home = [b \in Blocks |-> home[b]]
      BY DEF TypeOK
    <3>3. Replay(home, logblk, <<>>) = home
      BY ReplayEmpty DEF TypeOK
    <3> QED
      BY <2>1, <2>3, <3>1, <3>2, <3>3 DEF Recovered
  <2> QED
    BY <1>0, <1>1, <2>1, <2>4 DEF Stutter, Current, Read
<1>6. CASE end_commit(p)
  BY <1>0, <1>1, <1>6 DEF end_commit, disk, Stutter, Recovered, Replay, Current, Read
<1> QED
  BY <1>2, <1>3, <1>4, <1>5, <1>6 DEF commit

LEMMA RecoveryRefines ==
  ASSUME IInv, NEW p \in Ops, recover_from_log(p)
  PROVE  Stutter
<1> USE DEF IInv
<1>1. CASE initlog(p)
  BY <1>1 DEF initlog, Goto, disk, Stutter, Recovered, Replay, Current, Calling, TypeOK, PhaseInv
<1>2. CASE install_trans(p, "rec_install", "rec_erase")
  <2> DEFINE i == tail[p] + 1
  <2>1. /\ op[p] = "rec_install" /\ UNCHANGED <<logblk, hdr, sys>>
        /\ home' = [home EXCEPT ![lh[i]] = logblk[i]]
    BY <1>2 DEF install_trans, LoopStep, At
  <2>2. sys = "recovering" /\ lh = hdr
    BY <2>1, RecovererAlone DEF RecoveryPoints
  <2>3. i \in 1 .. Len(hdr)
    BY <2>1, <2>2 DEF LoopInv, TypeOK
  <2>4. \A b \in Blocks : (\A j \in 1 .. Len(hdr) : hdr[j] # b) => home'[b] = home[b]
    BY <2>1, <2>2, <2>3 DEF TypeOK
  <2>5. Replay(home', logblk, hdr) = Replay(home, logblk, hdr)
    <3>1. Header(hdr)
      BY DEF LoopInv
    <3> QED
      BY ONLY <2>4, <3>1, ReplaySameLog
  <2>6. Recovered' = Recovered
    BY <2>1, <2>5 DEF Recovered
  <2>7. Calling' = Calling
    BY <1>2 DEF install_trans, LoopStep, At, Goto, Calling, TypeOK
  <2> QED
    BY <2>1, <2>2, <2>6, <2>7 DEF Stutter, Current
<1>3. CASE rec_erase(p)
  <2>1. /\ op[p] = "rec_erase" /\ hdr' = <<>> /\ sys' = "up" /\ UNCHANGED <<home, logblk, cache>>
    BY <1>3 DEF rec_erase, At
  <2>2. sys = "recovering" /\ lh = hdr /\ dirty = {}
    BY <2>1, RecovererAlone DEF RecoveryPoints
  <2>3. \A b \in Blocks : Recovered[b] = home[b]
    BY <2>1, <2>2, ReplayIs DEF Recovered, CopyInv, LoopInv
  <2>4. Recovered = home /\ home = [b \in Blocks |-> home[b]]
    <3>1. Recovered = [b \in Blocks |-> Recovered[b]]
      BY ReplayIs DEF Recovered, LoopInv
    <3>2. home = [b \in Blocks |-> home[b]]
      BY DEF TypeOK
    <3> QED
      BY <2>3, <3>1, <3>2
  <2>5. Recovered' = home
    BY <2>1, ReplayEmpty DEF Recovered, TypeOK
  <2>6. \A b \in Blocks : Read(b)' = home[b]
    BY <2>1, <2>2 DEF Read, EvictionSafe
  <2>7. Calling' = Calling
    BY <1>3 DEF rec_erase, At, Goto, Calling, TypeOK
  <2> QED
    BY <2>1, <2>2, <2>4, <2>5, <2>6, <2>7 DEF Stutter, Current
<1> QED
  BY <1>1, <1>2, <1>3 DEF recover_from_log

LEMMA CrashRefines == ASSUME IInv, Crash PROVE Store!Crash
<1>1. hdr' = hdr /\ sys' = "down" /\ op' = [p \in Ops |-> "out"]
  BY DEF Crash
<1>2. Replay(home', logblk', hdr) = Replay(home, logblk, hdr)
  <2>1. Header(hdr)
    BY DEF IInv, LoopInv
  <2>2. /\ \A i \in 1 .. Len(hdr) : logblk'[i] = logblk[i]
        /\ \A b \in Blocks : (\A i \in 1 .. Len(hdr) : hdr[i] # b) => home'[b] = home[b]
    BY TornIsHarmless
  <2> QED
    BY ONLY <2>1, <2>2, ReplaySame
<1>3. Recovered' = Recovered /\ Current' = Recovered
  BY <1>1, <1>2 DEF Recovered, Current
<1>4. Calling' = {}
  BY <1>1 DEF Calling
<1> QED
  BY <1>3, <1>4 DEF Store!Crash

LEMMA EvictRefines == ASSUME IInv, NEW b \in Blocks, Evict(b) PROVE Stutter
<1>1. UNCHANGED <<home, logblk, hdr, sys, op>> /\ cache' = [cache EXCEPT ![b] = NoBuf]
  BY DEF Evict, disk
<1>2. \A x \in Blocks : Read(x)' = Read(x)
  BY <1>1 DEF Read, Evict, IInv, EvictionSafe, TypeOK
<1> QED
  BY <1>1, <1>2 DEF Stutter, Recovered, Replay, Current, Calling

\* The log implements the atomic store, for every number of processes, every
\* set of blocks and contents and every log sized for its calls: at most the
\* whole of the calls since the last commit is lost in a crash, never a part
\* (log.c: begin_op, log_write, end_op, commit, recover_from_log).
THEOREM LogIsAtomic == Sized /\ Spec => Atomic
<1>1. IInv /\ [Next]_vars => [Store!Next]_(Store!vars)
  <2> SUFFICES ASSUME IInv, [Next]_vars
               PROVE  Store!Next \/ Stutter
    BY DEF Stutter, Store!vars
  <2>1. ASSUME NEW p \in Ops, Step(p) PROVE Store!Next \/ Stutter
    BY <2>1, CallRefines, LogTestRefines, LogWriteRefines, CommitRefines, RecoveryRefines DEF Step, Store!Next
  <2>2. ASSUME NEW b \in Blocks, Evict(b) PROVE Stutter
    BY <2>2, EvictRefines
  <2>3. CASE Crash
    BY <2>3, CrashRefines DEF Store!Next
  <2>4. CASE UNCHANGED vars
    BY <2>4 DEF vars, disk, mem, Stutter, Recovered, Replay, Current, Read, Calling
  <2> QED
    BY <2>1, <2>2, <2>3, <2>4 DEF Next
<1> QED
  BY <1>1, InitRefines, IInvHolds, PTL DEF Spec, Atomic, Store!Spec
=============================================================================
