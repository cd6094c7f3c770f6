----------------------------- MODULE Ext2Blocks -----------------------------
(***************************************************************************)
(* Blocks and inodes of the ext2 file system (ext2fs.c) with one block     *)
(* group, as on the image of the Makefile.  ext2 bypasses the log: every   *)
(* bwrite is a step, and the machine may stop between any two.  A change   *)
(* to a buffer that is not followed by bwrite is in memory only, and lost  *)
(* when the buffer is recycled.  A file block is one value, <<f, bn>>; no  *)
(* file reaches the triple-indirect range, for EXT2_MAXFILE * BSIZE is     *)
(* 262656 blocks in 32 bits.  The contents of free blocks, which nothing   *)
(* reads, are all `Stale'.  s_inode_size is sizeof(struct ext2_inode), and *)
(* every bit of the bitmap stands for a block of the device.               *)
(***************************************************************************)
EXTENDS Integers, FiniteSets, FiniteSetsExt

CONSTANTS Files,
          NBIT,        \* bits of the block bitmap
          META,        \* mkfs.ext2 has marked bits 0 .. META-1
          BITMAP,      \* bg_block_bitmap, a metadata block
          NDIR,        \* EXT2_NDIR_BLOCKS
          NIND,        \* NINDIRECT1
          MaxBn,       \* bound: blocks of a file
          Crashes, Evictions    \* whether they happen

VARIABLES bbm, ibm,    \* on disk: block bitmap, inode bitmap
          blk,         \* on disk: the blocks
          dino,        \* on disk: the inodes
          mem,         \* the blocks as buffers hold them
          ip,          \* the inodes in memory
          op,          \* each file: the call at work on it
          fault        \* a panic, or an access outside a buffer

vars == <<bbm, ibm, blk, dino, mem, ip, op, fault>>

Bits == 0..NBIT - 1
BlockOf(z) == BITMAP + z          \* ext2_balloc
BitOf(b) == b - BITMAP            \* ext2_bfree
Blocks == {BlockOf(z) : z \in Bits}
IND == NDIR
DIND == NDIR + 1
Cells == 0..NIND - 1
Zero == [j \in Cells |-> <<0, 0>>]
Stale == [j \in Cells |-> <<0, META>>]
Data(f, bn) == [j \in Cells |-> <<f, bn>>]
Empty == [addrs |-> [i \in 0..DIND |-> 0], size |-> 0]
Idle == [pc |-> "idle", bn |-> 0, last |-> 0, new |-> 0]

Init == /\ bbm = 0..META - 1 /\ ibm = {}
        /\ blk = [b \in Blocks |-> Stale] /\ mem = blk
        /\ dino = [f \in Files |-> Empty] /\ ip = dino
        /\ op = [f \in Files |-> Idle]
        /\ fault = FALSE

At(f, l) == op[f].pc = l /\ ~fault
Goto(f, l) == op' = [op EXCEPT ![f].pc = l]
Return(f) == op' = [op EXCEPT ![f] = Idle]

\* ext2_ialloc clears the inode on disk, then marks it; create loads it.  That an inode
\* may be taken again before ext2_iput is through with it is in Icache.
ext2_ialloc(f) ==
  /\ At(f, "idle") /\ f \notin ibm
  /\ dino' = [dino EXCEPT ![f] = Empty]
  /\ Goto(f, "ialloc")
  /\ UNCHANGED <<bbm, ibm, blk, mem, ip, fault>>

ext2_ialloc_mark(f) ==
  /\ At(f, "ialloc")
  /\ ibm' = ibm \union {f}
  /\ ip' = [ip EXCEPT ![f] = dino[f]]
  /\ Return(f)
  /\ UNCHANGED <<bbm, blk, dino, mem, fault>>

\* ext2_writei from block bn, at most the end of the file, to block last: a turn of
\* filewrite is shorter than a block, and so touches one or two.
ext2_writei(f, bn, last) ==
  /\ At(f, "idle") /\ f \in ibm
  /\ bn <= ip[f].size /\ last \in {bn, bn + 1}
  /\ op' = [op EXCEPT ![f] = [pc |-> "bmap", bn |-> bn, last |-> last, new |-> 0]]
  /\ UNCHANGED <<bbm, ibm, blk, dino, mem, ip, fault>>

-----------------------------------------------------------------------------
top_Single(bn) == IF bn < NDIR THEN bn ELSE IND

\* ext2_bmap: where block bn is looked up: an entry of addrs, and an entry of the
\* indirect block it names.  For double-indirect blocks, the code takes the second
\* level from the first one's buffer, at the same index.
top(bn) == IF bn < NDIR THEN bn ELSE IF bn < NDIR + NIND THEN IND ELSE DIND
sub(bn) == IF bn < NDIR + NIND THEN bn - NDIR ELSE (bn - NDIR - NIND) \div NIND

\* The block found for bn, 0 if one has to be allocated.
lookup(f, bn) ==
  LET a == ip[f].addrs[top(bn)]
  IN IF bn < NDIR \/ a = 0 THEN a ELSE mem[a][sub(bn)][2]

\* ext2_balloc: the first zero bit, set on disk.  zeroth_bit runs on beyond the
\* bitmap when there is none.
ext2_balloc(f) ==
  /\ At(f, "bmap") /\ lookup(f, op[f].bn) = 0
  /\ IF Bits \ bbm = {} THEN fault' = TRUE /\ UNCHANGED <<bbm, op>>
     ELSE /\ bbm' = bbm \union {Min(Bits \ bbm)}
          /\ op' = [op EXCEPT ![f].pc = "bzero", ![f].new = BlockOf(Min(Bits \ bbm))]
          /\ UNCHANGED fault
  /\ UNCHANGED <<ibm, blk, dino, mem, ip>>

\* The new block is zeroed on disk, and entered where bmap looked: in the inode in
\* memory, or in the buffer of the indirect block.
bzero(f) ==
  /\ At(f, "bzero")
  /\ LET b == op[f].new
         a == ip[f].addrs[top(op[f].bn)]
     IN /\ blk' = [blk EXCEPT ![b] = Zero]
        /\ IF op[f].bn < NDIR \/ a = 0
           THEN ip' = [ip EXCEPT ![f].addrs[top(op[f].bn)] = b] /\ mem' = [mem EXCEPT ![b] = Zero]
           ELSE mem' = [mem EXCEPT ![b] = Zero, ![a][sub(op[f].bn)] = <<0, b>>] /\ UNCHANGED ip
        /\ Goto(f, IF op[f].bn >= NDIR /\ a = 0 THEN "bmap" ELSE "data")
  /\ UNCHANGED <<bbm, ibm, dino, fault>>

\* Where the write goes: the block just entered, or the one bmap found.
target(f) == IF op[f].pc = "data" THEN op[f].new ELSE lookup(f, op[f].bn)

bwrite_Never(b, x) == UNCHANGED blk

bwrite(b, x) == blk' = [blk EXCEPT ![b] = x]

\* The data of each block; after the last the inode, if the file has grown.
ext2_writei_data(f) ==
  /\ At(f, "data") \/ (At(f, "bmap") /\ lookup(f, op[f].bn) # 0)
  /\ LET bn == op[f].bn IN
     /\ bwrite(target(f), Data(f, bn))
     /\ mem' = [mem EXCEPT ![target(f)] = Data(f, bn)]
     /\ IF bn < op[f].last \/ bn + 1 <= ip[f].size
        THEN /\ op' = [op EXCEPT ![f] = IF bn < @.last THEN [@ EXCEPT !.pc = "bmap", !.bn = bn + 1] ELSE Idle]
             /\ UNCHANGED ip
        ELSE /\ op' = [op EXCEPT ![f] = [Idle EXCEPT !.pc = "iupdate"]]
             /\ ip' = [ip EXCEPT ![f].size = bn + 1]
  /\ UNCHANGED <<bbm, ibm, dino, fault>>

ext2_iupdate(f) ==
  /\ At(f, "iupdate")
  /\ dino' = [dino EXCEPT ![f] = ip[f]]
  /\ Return(f)
  /\ UNCHANGED <<bbm, ibm, blk, mem, ip, fault>>

-----------------------------------------------------------------------------
\* ext2_iput of a file without links: the inode bit, the blocks one by one, the inode.
ext2_iput(f) ==
  /\ At(f, "idle") /\ f \in ibm
  /\ ibm' = ibm \ {f}
  /\ Goto(f, "itrunc")
  /\ UNCHANGED <<bbm, blk, dino, mem, ip, fault>>

\* m is what the buffers hold otherwise.
bfree(b, m) == /\ fault' = (BitOf(b) \notin bbm)
               /\ bbm' = bbm \ {BitOf(b)}
               /\ blk' = [blk EXCEPT ![b] = Stale]
               /\ mem' = [m EXCEPT ![b] = Stale]

names_Nothing(a) == {}

\* The entries of an indirect block that are in use.
names(a) == {j \in Cells : mem[a][j][2] # 0}

\* ext2_itrunc, a bit at a time: direct blocks, the blocks that the indirect one
\* names, the indirect one; then iput's iupdate.
ext2_itrunc(f) ==
  LET direct == {i \in 0..NDIR - 1 : ip[f].addrs[i] # 0}
      inds == {i \in {IND, DIND} : ip[f].addrs[i] # 0}
      i == Min(inds)
      a == ip[f].addrs[i]
  IN /\ At(f, "itrunc")
     /\ \/ /\ direct # {}
           /\ bfree(ip[f].addrs[Min(direct)], mem)
           /\ ip' = [ip EXCEPT ![f].addrs[Min(direct)] = 0]
           /\ UNCHANGED <<dino, op>>
        \/ /\ direct = {} /\ inds # {} /\ names(a) # {}
           /\ bfree(mem[a][Min(names(a))][2], [mem EXCEPT ![a][Min(names(a))] = <<0, 0>>])
           /\ Goto(f, IF i = IND THEN "itrunc" ELSE "dind")
           /\ UNCHANGED <<dino, ip>>
        \/ /\ direct = {} /\ inds # {} /\ names(a) = {}
           /\ bfree(a, mem)
           /\ ip' = [ip EXCEPT ![f].addrs[i] = 0]
           /\ UNCHANGED <<dino, op>>
        \/ /\ direct = {} /\ inds = {}
           /\ ip' = [ip EXCEPT ![f] = Empty]
           /\ dino' = [dino EXCEPT ![f] = Empty]
           /\ Return(f)
           /\ UNCHANGED <<bbm, blk, mem, fault>>
  /\ UNCHANGED ibm

\* Here too, the second level is the first one's buffer: its entries are freed as if
\* they were data, and then what is left of the entry that led there, block 0.  The
\* bit of block 0 is outside the bitmap.
ext2_itrunc_dind(f) ==
  LET a == ip[f].addrs[DIND]
  IN /\ At(f, "dind")
     /\ \/ /\ names(a) # {}
           /\ bfree(mem[a][Min(names(a))][2], [mem EXCEPT ![a][Min(names(a))] = <<0, 0>>])
        \/ /\ names(a) = {}
           /\ fault' = TRUE
           /\ UNCHANGED <<bbm, blk, mem>>
     /\ UNCHANGED <<ibm, dino, ip, op>>

\* A buffer nobody uses is recycled; its block is then read again.
evict(b) == /\ Evictions /\ ~fault /\ mem[b] # blk[b]
            /\ mem' = [mem EXCEPT ![b] = blk[b]]
            /\ UNCHANGED <<bbm, ibm, blk, dino, ip, op, fault>>

\* The machine stops and starts again, with what is on disk.
crash == /\ Crashes
         /\ mem' = blk /\ ip' = dino
         /\ op' = [f \in Files |-> Idle]
         /\ fault' = FALSE
         /\ UNCHANGED <<bbm, ibm, blk, dino>>

Next == \/ \E f \in Files : \/ ext2_ialloc(f) \/ ext2_ialloc_mark(f) \/ ext2_balloc(f) \/ bzero(f)
                            \/ ext2_writei_data(f) \/ ext2_iupdate(f) \/ ext2_iput(f) \/ ext2_itrunc(f)
                            \/ ext2_itrunc_dind(f)
                            \/ \E bn, last \in 0..MaxBn - 1 : ext2_writei(f, bn, last)
        \/ \E b \in Blocks : evict(b)
        \/ crash

Spec == Init /\ [][Next]_vars

-----------------------------------------------------------------------------
\* Where a reader finds block bn of an inode i, with the blocks as in c.
found(i, c, bn) ==
  LET a == i.addrs[top(bn)] IN IF bn < NDIR \/ a = 0 THEN a ELSE c[a][sub(bn)][2]

reads(i, c, bn) == LET b == found(i, c, bn) IN IF b = 0 THEN Zero ELSE c[b]

addresses(i, c) == ({i.addrs[k] : k \in 0..DIND} \union {found(i, c, bn) : bn \in 0..MaxBn - 1}) \ {0}

\* Whenever the machine stops, the disk is in order: the blocks of an allocated
\* inode are marked, not metadata, and no other inode's (ext2fs.c:86-87, 172-173,
\* 350-354: the bitmap is written before the block is used, an inode is cleared
\* before it is marked, and unmarked before its blocks are freed).
DiskOwned ==
  \A f \in ibm :
    LET a == addresses(dino[f], blk)
    IN /\ \A b \in a : BitOf(b) \in bbm \ (0..META - 1)
       /\ \A g \in ibm \ {f} : a \intersect addresses(dino[g], blk) = {}

\* What the inode on disk says is in a file was written there, in its direct blocks
\* (ext2fs.c:564-575: data before the inode).  The entries of the indirect block do not
\* reach the disk (ext2fs.c:389-391), so a block beyond the direct ones may read as
\* zeros, but never as another block or another file.
DiskReadsBack ==
  \A f \in ibm : \A bn \in 0..dino[f].size - 1 :
    reads(dino[f], blk, bn) \in {Data(f, bn)} \union (IF bn < NDIR THEN {} ELSE {Zero})

\* As long as the machine runs, a file reads back as it was written.
ReadsBack ==
  \A f \in ibm : \A bn \in 0..ip[f].size - 1 : reads(ip[f], mem, bn) = Data(f, bn)

\* The blocks of the double-indirect range that share an entry are one block on disk,
\* but that touches nothing else: direct and single-indirect blocks read back, and no
\* other file has any of these blocks (ext2fs.c:393-408).
DeepContained ==
  /\ \A f \in ibm : \A bn \in 0..Min({ip[f].size, NDIR + NIND}) - 1 : reads(ip[f], mem, bn) = Data(f, bn)
  /\ \A f, g \in ibm : f # g => addresses(ip[f], mem) \intersect addresses(ip[g], mem) = {}

\* When no call is at work, a bit beyond the metadata is set exactly if a file has
\* its block: nothing leaks, nothing is freed twice (ext2fs.c:96-115, 438-465).  Only
\* a full disk stops a call.
BitmapExact ==
  /\ fault => bbm = Bits
  /\ (\A f \in Files : op[f] = Idle) =>
       bbm \ (0..META - 1) = {BitOf(b) : b \in UNION {addresses(ip[f], mem) : f \in ibm}}
=============================================================================
