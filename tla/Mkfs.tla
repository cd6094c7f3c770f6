-------------------------------- MODULE Mkfs --------------------------------
(***************************************************************************)
(* mkfs.c builds the disk image the kernel starts from: the layout, a root *)
(* directory with "mnt", the files of the command line, the bitmap.  A     *)
(* step is one call of iappend or ialloc with what goes with it; a failed  *)
(* check or an access beyond the image ends the program.  A block is a     *)
(* function on cells; a cell holds a directory entry (its inode number),   *)
(* a unit of a file's contents, or a block number.                         *)
(***************************************************************************)
EXTENDS Integers, Sequences, SequencesExt, FiniteSets, FiniteSetsExt

CONSTANTS FSSIZE, nlog, NINODES, IPB, BPB, BSIZE, NDIRECT, NINDIRECT,
          Inputs        \* command lines: sequences of files, a file a sequence of units

VARIABLES argv,
          disk,         \* inodes, blocks and bitmap
          freeinode, freeblock,
          i, off,       \* the file of argv that is copied, how much of it was
          pc

vars == <<argv, disk, freeinode, freeblock, i, off, pc>>

ninodeblocks == NINODES \div IPB + 1
nbitmap == FSSIZE \div BPB + 1
nmeta == 2 + nlog + ninodeblocks + nbitmap
MAXFILE == NDIRECT + NINDIRECT
ROOTINO == 1
MNT == 2
Zeroes == [c \in 0..BSIZE - 1 |-> 0]

Unused == [type |-> "none", size |-> 0, addrs |-> [k \in 0..NDIRECT |-> 0]]

\* The image after its blocks were zeroed and the superblock was written.
Init == /\ argv \in Inputs
        /\ disk = [din |-> [n \in 1..NINODES |-> Unused],
                   blk |-> [b \in nmeta..FSSIZE - 1 |-> Zeroes], used |-> {}]
        /\ freeinode = 1 /\ freeblock = nmeta
        /\ i = 1 /\ off = 0
        /\ pc = "root"

-----------------------------------------------------------------------------
ialloc(d, n, type) == [d EXCEPT !.din[n] = [Unused EXCEPT !.type = type]]

(* iappend on t: image d, freeblock free, block number x; x = -1 when a    *)
(* check failed.                                                           *)

inImage(b) == b < FSSIZE

\* An entry of addrs, allocated if it is 0.
fresh(t, n, k) ==
  IF t.d.din[n].addrs[k] # 0 THEN [t EXCEPT !.x = t.d.din[n].addrs[k]]
  ELSE [t EXCEPT !.d.din[n].addrs[k] = t.free, !.x = t.free, !.free = @ + 1]

\* An entry of the indirect block, allocated if it is 0.
indirect(t, n, fbn) ==
  LET u == fresh(t, n, NDIRECT)
  IN IF ~inImage(u.x) THEN [u EXCEPT !.x = -1]
     ELSE IF u.d.blk[u.x][fbn - NDIRECT] # 0 THEN [u EXCEPT !.x = u.d.blk[u.x][fbn - NDIRECT]]
     ELSE [u EXCEPT !.d.blk[u.x][fbn - NDIRECT] = u.free, !.x = u.free, !.free = @ + 1]

\* Where the block fbn of a file is.
block(t, n, fbn) == IF fbn >= MAXFILE THEN [t EXCEPT !.x = -1]
                    ELSE IF fbn < NDIRECT THEN fresh(t, n, fbn)
                    ELSE indirect(t, n, fbn)

within_Start(at) == 0

within(at) == at % BSIZE

\* Append the units p to inode n.  No call crosses the end of a block: entries divide
\* a block, and files are read a block at a time.
iappend(t, n, p) ==
  LET at == t.d.din[n].size
      u == block(t, n, at \div BSIZE)
  IN IF t.x = -1 \/ u.x = -1 \/ ~inImage(u.x) THEN [t EXCEPT !.x = -1]
     ELSE [u EXCEPT !.d.din[n].size = at + Len(p),
                    !.d.blk[u.x] = [c \in DOMAIN @ |->
                       LET k == c - within(at) IN IF k \in 0..Len(p) - 1 THEN p[k + 1] ELSE @[c]]]

Now(d) == [d |-> d, free |-> freeblock, x |-> 0]

\* Carry on with t at pc, unless a check failed.
Go(t, next) == IF t.x = -1 THEN pc' = "exit 1" /\ UNCHANGED <<disk, freeblock>>
               ELSE pc' = next /\ disk' = t.d /\ freeblock' = t.free

\* The root directory and "mnt".
main_root ==
  LET d == ialloc(ialloc(disk, ROOTINO, "dir"), MNT, "dir")
      root == FoldLeft(LAMBDA t, e : iappend(t, ROOTINO, <<e>>), Now(d), <<ROOTINO, ROOTINO, MNT>>)
  IN /\ pc = "root"
     /\ Go(FoldLeft(LAMBDA t, e : iappend(t, MNT, <<e>>), root, <<MNT, ROOTINO>>), "next")
     /\ freeinode' = 3
     /\ UNCHANGED <<argv, i, off>>

\* The entry of the next file.  ialloc has no check: winode of an inode beyond the table
\* would write into the bitmap, so Inputs are short enough.
main_file ==
  /\ pc = "next" /\ i <= Len(argv)
  /\ Go(iappend(Now(ialloc(disk, freeinode, "file")), ROOTINO, <<freeinode>>), "copy")
  /\ freeinode' = freeinode + 1 /\ off' = 0
  /\ UNCHANGED <<argv, i>>

\* read and iappend up to a block of it.
main_copy ==
  /\ pc = "copy"
  /\ \/ /\ off < Len(argv[i])
        /\ LET cc == Min({BSIZE, Len(argv[i]) - off})
           IN /\ Go(iappend(Now(disk), freeinode - 1, SubSeq(argv[i], off + 1, off + cc)), "copy")
              /\ off' = off + cc
        /\ UNCHANGED i
     \/ /\ off = Len(argv[i])
        /\ i' = i + 1 /\ pc' = "next"
        /\ UNCHANGED <<disk, freeblock, off>>
  /\ UNCHANGED <<argv, freeinode>>

\* balloc marks the first blocks.
marked(used) == 0..used - 1

\* The root directory's size is rounded up, and the bitmap written.
main_end ==
  /\ pc = "next" /\ i > Len(argv)
  /\ IF freeblock >= BPB THEN pc' = "exit 1" /\ UNCHANGED disk
     ELSE /\ pc' = "exit 0"
          /\ disk' = [disk EXCEPT !.din[ROOTINO].size = (@ \div BSIZE + 1) * BSIZE,
                                  !.used = marked(freeblock)]
  /\ UNCHANGED <<argv, freeinode, freeblock, i, off>>

Done == pc \in {"exit 0", "exit 1"} /\ UNCHANGED vars

Next == main_root \/ main_file \/ main_copy \/ main_end \/ Done

Spec == Init /\ [][Next]_vars

-----------------------------------------------------------------------------
\* The kernel's bmap, without allocation.
addr(n, fbn) == LET a == disk.din[n].addrs IN
                IF fbn < NDIRECT THEN a[fbn]
                ELSE IF a[NDIRECT] = 0 THEN 0 ELSE disk.blk[a[NDIRECT]][fbn - NDIRECT]

mapped(n) == {addr(n, fbn) : fbn \in 0..MAXFILE - 1} \ {0}
owned(n) == mapped(n) \union ({disk.din[n].addrs[NDIRECT]} \ {0})

contents(n) == [k \in 1..disk.din[n].size |-> disk.blk[addr(n, (k - 1) \div BSIZE)][(k - 1) % BSIZE]]

\* A finished image is one the kernel can go on from: every inode's blocks are its own,
\* and the bitmap marks exactly those and the blocks before them (mkfs.c:120-311).
ImageOwned ==
  pc = "exit 0" =>
    /\ \A m, n \in 1..freeinode - 1 : m # n => owned(m) \intersect owned(n) = {}
    /\ disk.used = 0..nmeta - 1 \union UNION {owned(n) : n \in 1..freeinode - 1}

\* A finished image holds the files that were given, in the order of the entries of the
\* root directory, as the kernel will read them (mkfs.c:147-173, 272-314).
ImageReadsBack ==
  pc = "exit 0" =>
    \A k \in 1..Len(argv) :
      LET e == k + 3
          n == disk.blk[addr(ROOTINO, (e - 1) \div BSIZE)][(e - 1) % BSIZE]
      IN n \in 1..NINODES /\ disk.din[n].type = "file" /\ contents(n) = argv[k]
=============================================================================
