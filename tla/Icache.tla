------------------------------- MODULE Icache -------------------------------
(***************************************************************************)
(* The inode cache that the built-in file system (fs.c) and ext2           *)
(* (ext2fs.c) share, and the system calls that take and drop references:   *)
(* open, create, unlink, close and the idup of fork.  Between two steps of *)
(* a process any other process may run, except where both hold the same    *)
(* lock: icache.lock, an inode's sleep lock, or the lock of the directory  *)
(* that names the files of a file system (one directory each).  A file has *)
(* at most one name.  What happens between an ilock and its iunlock is one *)
(* step, but the freeing part of iput, which races with ialloc, is not.    *)
(***************************************************************************)
EXTENDS Naturals, FiniteSets, FiniteSetsExt

CONSTANTS Procs,
          Fs, Ext2,    \* inode numbers of the two devices, kept apart
          NINODE,
          Nobody

\* What the constants must satisfy.
IcacheAssumption ==
  /\ Fs \subseteq Nat \ {0} /\ Ext2 \subseteq Nat \ {0} /\ Fs \cap Ext2 = {}
  /\ NINODE \in Nat \ {0} /\ Nobody \notin Procs

Inodes == Fs \cup Ext2
Slots == 1 .. NINODE
Null == 0                            \* for ip->addrs and for "no slot"
Ops(i) == IF i \in Fs THEN "inbuiltfs" ELSE "ext2fs"

VARIABLES disk,    \* the inodes on disk: type and link count
          bitmap,  \* ext2 inodes whose bit in the inode bitmap is set
          names,   \* inodes a directory entry points to
          ic,      \* icache.inode
          busy,    \* busy[fs] = indices of its addrs pool that are taken
          dirlock, \* holder of each directory's lock
          pc, ip,  \* where a process is, and the cache entry it works on
          target,  \* the inode number it is about to iget
          ad       \* iput's local copy of ip->addrs

vars == <<disk, bitmap, names, ic, busy, dirlock, pc, ip, target, ad>>

Free == [inum |-> 0, ref |-> 0, lock |-> Nobody, valid |-> FALSE, type |-> "none",
         nlink |-> 0, file_type |-> "null", addrs |-> Null]

\* iinit and ext2_iinit, on two file systems with no files.
Init ==
  /\ disk = [i \in Inodes |-> [type |-> "none", nlink |-> 0]]
  /\ bitmap = {} /\ names = {}
  /\ ic = [s \in Slots |-> Free]
  /\ busy = [f \in {"inbuiltfs", "ext2fs"} |-> {}]
  /\ dirlock = [f \in {"inbuiltfs", "ext2fs"} |-> Nobody]
  /\ pc = [p \in Procs |-> "idle"]
  /\ ip = [p \in Procs |-> Null] /\ target = [p \in Procs |-> 0]
  /\ ad = [p \in Procs |-> Null]

Goto(p, l) == pc' = [pc EXCEPT ![p] = l]

Cached(i) == {s \in Slots : ic[s].ref > 0 /\ ic[s].inum = i}
Empty == {s \in Slots : ic[s].ref = 0}

\* iget: find the entry, or take the first empty one and a free addrs.
Recycled(i) == [inum |-> i, ref |-> 1, lock |-> ic[Min(Empty)].lock, valid |-> FALSE,
                type |-> ic[Min(Empty)].type, nlink |-> ic[Min(Empty)].nlink,
                file_type |-> Ops(i), addrs |-> Min(Slots \ busy[Ops(i)])]

iget(p, i, next) ==
  \/ /\ Cached(i) # {}
     /\ LET s == Min(Cached(i)) IN
          ic' = [ic EXCEPT ![s].ref = @ + 1] /\ ip' = [ip EXCEPT ![p] = s]
     /\ Goto(p, next) /\ UNCHANGED busy
  \/ /\ Cached(i) = {} /\ Empty # {}
     /\ LET s == Min(Empty) IN
          ic' = [ic EXCEPT ![s] = Recycled(i)] /\ ip' = [ip EXCEPT ![p] = s]
     /\ busy' = [busy EXCEPT ![Ops(i)] = @ \cup {Recycled(i).addrs}]
     /\ Goto(p, next)
  \/ /\ Cached(i) = {} /\ Empty = {}        \* panic("iget: no inodes")
     /\ Goto(p, "panic") /\ UNCHANGED <<ic, busy, ip>>

\* sys_open of an existing file, and the lookup of sys_unlink: dirlookup under the
\* directory's lock, which open then drops and unlink keeps.
open(p, i) ==
  /\ pc[p] = "idle" /\ dirlock[Ops(i)] = Nobody /\ i \in names
  /\ iget(p, i, "opening")
  /\ UNCHANGED <<disk, bitmap, names, dirlock, target, ad>>

unlink(p, i) ==
  /\ pc[p] = "idle" /\ dirlock[Ops(i)] = Nobody /\ i \in names
  /\ iget(p, i, "unlinking")
  /\ dirlock' = [dirlock EXCEPT ![Ops(i)] = p]
  /\ UNCHANGED <<disk, bitmap, names, target, ad>>

\* create of a new name: ialloc marks the first free inode on disk ...
Unused(f) == IF f = "inbuiltfs" THEN {i \in Fs : disk[i].type = "none"} ELSE Ext2 \ bitmap

ialloc(p, f) ==
  /\ pc[p] = "idle" /\ dirlock[f] = Nobody
  /\ dirlock' = [dirlock EXCEPT ![f] = p]
  /\ \/ /\ Unused(f) = {}                   \* panic("ialloc: no inodes")
        /\ Goto(p, "panic") /\ UNCHANGED <<disk, bitmap, target>>
     \/ /\ Unused(f) # {}
        /\ LET i == Min(Unused(f)) IN
             /\ disk' = [disk EXCEPT ![i] = [type |-> "file", nlink |-> 0]]
             /\ bitmap' = bitmap \cup ({i} \cap Ext2)
             /\ target' = [target EXCEPT ![p] = i]
        /\ Goto(p, "ialloc")
  /\ UNCHANGED <<names, ic, busy, ip, ad>>

\* ... and returns iget of it.
ialloc_iget(p) ==
  /\ pc[p] = "ialloc" /\ iget(p, target[p], "creating")
  /\ target' = [target EXCEPT ![p] = 0]
  /\ UNCHANGED <<disk, bitmap, names, dirlock, ad>>

\* ip->file_type->iops->ilock(ip) ends in a null dereference when file_type, or
\* the addrs it copies the block numbers to, has been cleared.  If file_type was
\* read before it was cleared, the next use of it or of addrs is the one that does.
Faults(s) == ic[s].file_type = "null" \/ (~ic[s].valid /\ ic[s].addrs = Null)

\* The entry after ilock / ext2_ilock has read it from disk if necessary.
Loaded(s) ==
  LET e == ic[s] d == disk[e.inum] IN
  IF e.valid THEN e
  ELSE [e EXCEPT !.valid = TRUE, !.nlink = d.nlink,
                 !.type = IF e.file_type = "ext2fs" /\ d.type = "none" THEN @ ELSE d.type]

Locking == {"opening", "creating", "unlinking", "reading"}

ilock_fails(p) ==
  /\ pc[p] \in Locking /\ UNCHANGED <<disk, bitmap, names, busy, dirlock, ip, target, ad>>
  /\ IF Faults(ip[p])
     THEN Goto(p, "fault") /\ UNCHANGED ic
     ELSE /\ ic[ip[p]].lock = Nobody
          /\ Loaded(ip[p]).type = "none"    \* panic("ilock: no type")
          /\ ic' = [ic EXCEPT ![ip[p]] = [Loaded(ip[p]) EXCEPT !.lock = p]]
          /\ Goto(p, "assert")

CanLock(p) == ~Faults(ip[p]) /\ ic[ip[p]].lock = Nobody /\ Loaded(ip[p]).type # "none"

\* iupdate writes the entry through; ext2_iupdate leaves the mode alone when the
\* type is neither file nor directory.
iupdate(e) ==
  disk' = [disk EXCEPT ![e.inum] =
             [type |-> IF e.file_type = "ext2fs" /\ e.type = "none" THEN @.type ELSE e.type,
              nlink |-> e.nlink]]

\* open goes on: ilock, iunlock, and the reference stays in the file.
open_lock(p) ==
  /\ pc[p] \in {"opening", "reading"} /\ CanLock(p)
  /\ ic' = [ic EXCEPT ![ip[p]] = Loaded(ip[p])]
  /\ Goto(p, "held")
  /\ UNCHANGED <<disk, bitmap, names, busy, dirlock, ip, target, ad>>

\* create goes on: nlink = 1, iupdate, dirlink, and the directory is unlocked.
create_lock(p) ==
  /\ pc[p] = "creating" /\ CanLock(p)
  /\ LET e == [Loaded(ip[p]) EXCEPT !.nlink = 1] IN
       /\ ic' = [ic EXCEPT ![ip[p]] = e] /\ iupdate(e)
       /\ names' = names \cup {e.inum}
       /\ dirlock' = [dirlock EXCEPT ![Ops(e.inum)] = Nobody]
  /\ Goto(p, "held")
  /\ UNCHANGED <<bitmap, busy, ip, target, ad>>

\* unlink goes on: clear the entry, unlock the directory, nlink--, iupdate, iunlock.
unlink_lock(p) ==
  /\ pc[p] = "unlinking" /\ CanLock(p)
  /\ IF Loaded(ip[p]).nlink < 1             \* panic("unlink: nlink < 1")
     THEN /\ ic' = [ic EXCEPT ![ip[p]] = [Loaded(ip[p]) EXCEPT !.lock = p]]
          /\ Goto(p, "assert") /\ UNCHANGED <<disk, names, dirlock>>
     ELSE LET e == [Loaded(ip[p]) EXCEPT !.nlink = @ - 1] IN
          /\ ic' = [ic EXCEPT ![ip[p]] = e] /\ iupdate(e)
          /\ names' = names \ {e.inum}
          /\ dirlock' = [dirlock EXCEPT ![Ops(e.inum)] = Nobody]
          /\ Goto(p, "put")
  /\ UNCHANGED <<bitmap, busy, ip, target, ad>>

\* A process with an open file reads it, closes it, or forks a child whose cwd is
\* an idup of its own.
read(p) ==
  /\ pc[p] = "held" /\ Goto(p, "reading")
  /\ UNCHANGED <<disk, bitmap, names, ic, busy, dirlock, ip, target, ad>>

close(p) ==
  /\ pc[p] = "held" /\ Goto(p, "put")
  /\ UNCHANGED <<disk, bitmap, names, ic, busy, dirlock, ip, target, ad>>

idup(p, q) ==
  /\ pc[p] = "held" /\ pc[q] = "idle"
  /\ ic' = [ic EXCEPT ![ip[p]].ref = @ + 1]
  /\ ip' = [ip EXCEPT ![q] = ip[p]] /\ Goto(q, "held")
  /\ UNCHANGED <<disk, bitmap, names, busy, dirlock, target, ad>>

\* iput / ext2_iput.  The last reference to an inode without links frees it.
LastOfUnlinked_AnyRef(s) == ic[s].valid /\ ic[s].nlink = 0
LastOfUnlinked(s) == ic[s].valid /\ ic[s].nlink = 0 /\ ic[s].ref = 1

iput(p) ==
  LET s == ip[p] IN
  /\ pc[p] = "put"
  /\ IF ic[s].file_type = "null"
     THEN Goto(p, "fault") /\ UNCHANGED <<ic, ad>>
     ELSE /\ ic[s].lock = Nobody
          /\ ad' = [ad EXCEPT ![p] = ic[s].addrs]
          /\ IF LastOfUnlinked(s)
             THEN ic' = [ic EXCEPT ![s].lock = p] /\ Goto(p, "freeing")
             ELSE Goto(p, "deref") /\ UNCHANGED ic
  /\ UNCHANGED <<disk, bitmap, names, busy, dirlock, ip, target>>

\* ext2_ifree clears the bit in the inode bitmap before anything else.
ext2_ifree(p) ==
  /\ pc[p] = "freeing" /\ ic[ip[p]].inum \in Ext2
  /\ IF ic[ip[p]].inum \in bitmap
     THEN bitmap' = bitmap \ {ic[ip[p]].inum} /\ Goto(p, "truncating")
     ELSE Goto(p, "assert") /\ UNCHANGED bitmap    \* panic("freeing free inode")
  /\ UNCHANGED <<disk, names, ic, busy, dirlock, ip, target, ad>>

\* itrunc, type = 0, iupdate.
iput_free(p) ==
  LET e == [ic[ip[p]] EXCEPT !.type = "none"] IN
  /\ \/ pc[p] = "freeing" /\ e.inum \in Fs
     \/ pc[p] = "truncating"
  /\ ic' = [ic EXCEPT ![ip[p]] = e] /\ iupdate(e)
  /\ Goto(p, "freed")
  /\ UNCHANGED <<bitmap, names, busy, dirlock, ip, target, ad>>

\* The entry forgets the file system and releases its lock.
iput_clear(p) ==
  /\ pc[p] = "freed"
  /\ ic' = [ic EXCEPT ![ip[p]] =
              [@ EXCEPT !.valid = FALSE, !.file_type = "null", !.lock = Nobody,
                        !.addrs = IF ic[ip[p]].inum \in Fs THEN Null ELSE @]]
  /\ Goto(p, "deref")
  /\ UNCHANGED <<disk, bitmap, names, busy, dirlock, ip, target, ad>>

\* Under icache.lock: ref--, and the addrs of an unreferenced entry goes back.
iput_deref(p) ==
  LET s == ip[p] e == [ic[s] EXCEPT !.ref = @ - 1] IN
  /\ pc[p] = "deref"
  /\ IF e.ref = 0 /\ ad[p] = Null
     THEN /\ Goto(p, "fault") /\ ic' = [ic EXCEPT ![s] = e]
          /\ ip' = [ip EXCEPT ![p] = Null] /\ UNCHANGED <<busy, ad>>
     ELSE /\ ic' = [ic EXCEPT ![s] =
                      IF e.ref > 0 THEN e
                      ELSE IF e.inum \in Fs THEN [e EXCEPT !.addrs = Null]
                      ELSE [e EXCEPT !.file_type = "null"]]
          /\ busy' = [busy EXCEPT ![Ops(e.inum)] = IF e.ref > 0 THEN @ ELSE @ \ {ad[p]}]
          /\ ip' = [ip EXCEPT ![p] = Null] /\ ad' = [ad EXCEPT ![p] = Null]
          /\ Goto(p, "idle")
  /\ UNCHANGED <<disk, bitmap, names, dirlock, target>>

Put(p) == iput(p) \/ ext2_ifree(p) \/ iput_free(p) \/ iput_clear(p) \/ iput_deref(p)

Lock(p) == ilock_fails(p) \/ open_lock(p) \/ create_lock(p) \/ unlink_lock(p)

Next ==
  \E p \in Procs :
    \/ \E i \in Inodes : open(p, i) \/ unlink(p, i)
    \/ \E f \in DOMAIN busy : ialloc(p, f)
    \/ ialloc_iget(p) \/ Lock(p) \/ read(p) \/ close(p) \/ Put(p)
    \/ \E q \in Procs : idup(p, q)

Spec == Init /\ [][Next]_vars

-----------------------------------------------------------------------------

Points == Locking \cup {"idle", "ialloc", "held", "put", "freeing", "truncating",
                       "freed", "deref", "panic", "assert", "fault"}

\* The cache and the processes keep their types.
TypeOK ==
  /\ disk \in [Inodes -> [type : {"none", "file"}, nlink : 0 .. 1]]
  /\ bitmap \subseteq Ext2 /\ names \subseteq Inodes
  /\ ic \in [Slots -> [inum : Inodes \cup {0}, ref : 0 .. Cardinality(Procs),
                       lock : Procs \cup {Nobody}, valid : BOOLEAN,
                       type : {"none", "file"}, nlink : 0 .. 1,
                       file_type : {"null", "inbuiltfs", "ext2fs"}, addrs : 0 .. NINODE]]
  /\ busy \in [{"inbuiltfs", "ext2fs"} -> SUBSET Slots]
  /\ dirlock \in [{"inbuiltfs", "ext2fs"} -> Procs \cup {Nobody}]
  /\ pc \in [Procs -> Points]
  /\ ip \in [Procs -> 0 .. NINODE] /\ ad \in [Procs -> 0 .. NINODE]
  /\ target \in [Procs -> Inodes \cup {0}]

\* ip->ref counts the pointers to an entry, and an inode has one entry: "iget()
\* finds or creates a cache entry and increments its ref" (fs.c:161-162).
RefCounts ==
  /\ \A s \in Slots :
       ic[s].ref = Cardinality({p \in Procs : ip[p] = s})
  /\ \A i \in Inodes : Cardinality(Cached(i)) <= 1

\* A file that has a name or is open is allocated on disk; iput frees it only
\* after the last of both is gone (fs.c:387-397, ext2fs.c:343-353).
InUse(i) == i \in names \/ \E p \in Procs : pc[p] \in {"held", "reading"} /\ ic[ip[p]].inum = i
UsedIsAllocated ==
  \A i \in Inodes : InUse(i) => disk[i].type = "file" /\ (i \in Ext2 => i \in bitmap)

\* An inode is created by one process at a time, and never while it has a name
\* (ialloc's test and mark are under the buffer's lock, fs.c:234-242).
CreatedOnce ==
  \A p \in Procs :
    LET i == IF pc[p] = "ialloc" THEN target[p] ELSE ic[ip[p]].inum IN
    pc[p] \in {"ialloc", "creating"} => ~InUse(i)

\* The kernel's own checks never fail: a locked inode has a type ("ilock: no type",
\* fs.c:359), a name is counted as a link ("unlink: nlink < 1", sysfile.c:243), an
\* inode is freed once ("freeing free inode", ext2fs.c:131).
AssertionsHold == \A p \in Procs : pc[p] # "assert"

\* The entries in use have different addrs, all marked busy, so iget always finds a
\* free one (fs.c:292-299, 309-318).
AddrsOwned ==
  \A s, t \in Slots :
    LET Has(u) == ic[u].ref > 0 /\ ic[u].addrs # Null IN
    /\ Has(s) => ic[s].addrs \in busy[Ops(ic[s].inum)]
    /\ Has(s) /\ Has(t) /\ s # t /\ Ops(ic[s].inum) = Ops(ic[t].inum)
         => ic[s].addrs # ic[t].addrs

\* A pointer that iget returned can be used: "iget() increments ip->ref so that the
\* inode stays cached and pointers to it remain valid" (fs.c:186-187).
PointersStayValid == \A p \in Procs : pc[p] # "fault"
=============================================================================
