----------------------------- MODULE MCStorage ------------------------------
(***************************************************************************)
(* Small instances of the two file systems' blocks and directories, and of *)
(* mkfs.  A behaviour is one of the part chosen in its initial state; the  *)
(* variables of the others are 0.                                          *)
(***************************************************************************)
EXTENDS Integers, Sequences, TLC

CONSTANTS q1, q2, f1, f2, Nobody

VARIABLES part,
          fdisk, dip, fip, wr, touched, fpanicked,         \* FsBlocks
          bbm, ibm, blk, dino, mem, eip, op, fault,        \* Ext2Blocks
          inode, lock, proc,                               \* Dirs
          dir, size, dpanicked, model,                     \* Ext2Dir
          argv, mdisk, freeinode, freeblock, i, off, mpc   \* Mkfs

\* Writers and processes are never ordered.
MCSymmetry == Permutations({q1, q2}) \union Permutations({f1, f2})

fv == <<fdisk, dip, fip, wr, touched, fpanicked>>
ev == <<bbm, ibm, blk, dino, mem, eip, op, fault>>
dv == <<inode, lock, proc>>
rv == <<dir, size, dpanicked, model>>
mv == <<argv, mdisk, freeinode, freeblock, i, off, mpc>>

\* Two writers and four blocks of two bytes for files of up to three: the disk fills.
F == INSTANCE FsBlocks WITH Files <- {f1, f2}, Writers <- {q1, q2}, NBLOCK <- 4, BSIZE <- 2,
                            NDIRECT <- 1, NINDIRECT <- 2, MaxChunk <- 2, MaxWrite <- 4, OpBlocks <- 5,
                            disk <- fdisk, ip <- fip, panicked <- fpanicked

\* Crashes: a direct and an indirect block, and a disk with room for one such file.
E == INSTANCE Ext2Blocks WITH Files <- {f1, f2}, NBIT <- 5, META <- 2, BITMAP <- 1, NDIR <- 1, NIND <- 2,
                              MaxBn <- 2, Crashes <- TRUE, Evictions <- FALSE, ip <- eip

\* The indirect block, as long as its buffer stays in the cache; the disk may fill.
W == INSTANCE Ext2Blocks WITH Files <- {f1, f2}, NBIT <- 8, META <- 2, BITMAP <- 1, NDIR <- 1, NIND <- 2,
                              MaxBn <- 3, Crashes <- FALSE, Evictions <- FALSE, ip <- eip

\* The double-indirect range, with no direct blocks before it, with room for two such files.
\* Calls come one at a time: their interleavings are in the instances before.
V == INSTANCE Ext2Blocks WITH Files <- {f1, f2}, NBIT <- 12, META <- 2, BITMAP <- 1, NDIR <- 0, NIND <- 2,
                              MaxBn <- 4, Crashes <- FALSE, Evictions <- FALSE, ip <- eip

\* The root, two more inodes, and paths of one and two names.
D == INSTANCE Dirs WITH Procs <- {q1, q2}, NINODES <- 3, Names <- {"a", "b"},
                        Paths <- {<<"a">>, <<"b">>, <<"a", "b">>}, Types <- {"dir", "file"}, MaxLinks <- 2

\* Names of two lengths in two blocks of 20 bytes.
R == INSTANCE Ext2Dir WITH Names <- {"x", "yy"}, NameLen <- [x |-> 1, yy |-> 2], Inums <- {5, 6},
                           BSIZE <- 20, NBLOCK <- 2, DE <- 5, HDR <- 2, panicked <- dpanicked

\* Up to three files, from empty ones to some that need the indirect block, on a disk
\* that does not hold the largest.
Text(n) == [k \in 1..n |-> 10 + k]
CommandLines == {<<>>} \union {<<Text(a)>> : a \in 0..9} \union {<<Text(a), Text(b)>> : a, b \in 0..9}
                       \union {<<Text(a), Text(b), Text(c)>> : a, b, c \in {0, 3, 6, 8}}
M == INSTANCE Mkfs WITH FSSIZE <- 18, nlog <- 2, NINODES <- 5, IPB <- 3, BPB <- 20, BSIZE <- 2,
                        NDIRECT <- 2, NINDIRECT <- 2, Inputs <- CommandLines, disk <- mdisk, pc <- mpc

OneCall == \E f \in {f1, f2} : op'[f] = V!Idle

NoFsBlocks == /\ fdisk = 0 /\ dip = 0 /\ fip = 0 /\ wr = 0 /\ touched = 0 /\ fpanicked = 0
NoExt2Blocks == /\ bbm = 0 /\ ibm = 0 /\ blk = 0 /\ dino = 0 /\ mem = 0 /\ eip = 0 /\ op = 0
                /\ fault = 0
NoDirs == /\ inode = 0 /\ lock = 0 /\ proc = 0
NoExt2Dir == /\ dir = 0 /\ size = 0 /\ dpanicked = 0 /\ model = 0
NoMkfs == /\ argv = 0 /\ mdisk = 0 /\ freeinode = 0 /\ freeblock = 0 /\ i = 0 /\ off = 0
          /\ mpc = 0

Init ==
  \/ /\ part = "fs" /\ F!Init
     /\ NoExt2Blocks /\ NoDirs /\ NoExt2Dir /\ NoMkfs
  \/ /\ part = "ext2" /\ E!Init
     /\ NoFsBlocks /\ NoDirs /\ NoExt2Dir /\ NoMkfs
  \/ /\ part = "warm" /\ W!Init
     /\ NoFsBlocks /\ NoDirs /\ NoExt2Dir /\ NoMkfs
  \/ /\ part = "deep" /\ V!Init
     /\ NoFsBlocks /\ NoDirs /\ NoExt2Dir /\ NoMkfs
  \/ /\ part = "dirs" /\ D!Init
     /\ NoFsBlocks /\ NoExt2Blocks /\ NoExt2Dir /\ NoMkfs
  \/ /\ part = "ext2dir" /\ R!Init
     /\ NoFsBlocks /\ NoExt2Blocks /\ NoDirs /\ NoMkfs
  \/ /\ part = "mkfs" /\ M!Init
     /\ NoFsBlocks /\ NoExt2Blocks /\ NoDirs /\ NoExt2Dir

Next ==
  /\ UNCHANGED part
  /\ \/ part = "fs" /\ F!Next /\ UNCHANGED <<ev, dv, rv, mv>>
     \/ part = "ext2" /\ E!Next /\ UNCHANGED <<fv, dv, rv, mv>>
     \/ part = "warm" /\ W!Next /\ UNCHANGED <<fv, dv, rv, mv>>
     \/ part = "deep" /\ V!Next /\ OneCall /\ UNCHANGED <<fv, dv, rv, mv>>
     \/ part = "dirs" /\ D!Next /\ UNCHANGED <<fv, ev, rv, mv>>
     \/ part = "ext2dir" /\ R!Next /\ UNCHANGED <<fv, ev, dv, mv>>
     \/ part = "mkfs" /\ M!Next /\ UNCHANGED <<fv, ev, dv, rv>>

Spec == Init /\ [][Next]_<<part, fv, ev, dv, rv, mv>>

-----------------------------------------------------------------------------
\* A file of either file system reads as it was written: in ext2 while its buffers are
\* cached, and past the single indirect block at least what double-indirect blocks
\* overwrite is in their own range of their own file (fs.c:433-575, ext2fs.c:370-408).
ContentsReadBack == /\ part = "fs" => F!ReadsBack
                    /\ part = "warm" => W!ReadsBack
                    /\ part = "deep" => V!DeepContained

\* The bitmap of either file system marks exactly the blocks of files, each once: none
\* leaks or is freed twice (fs.c:92-131, 470-499, ext2fs.c:96-115, 438-465).
BitmapExact == (part = "fs" => F!BlocksOwned) /\ (part = "warm" => W!BitmapExact)

\* A turn of filewrite stays within its transaction (file.c:131-143).
WriteFits == part = "fs" => F!WriteFits

\* Wherever the machine stops, allocated ext2 inodes own their blocks on disk, have the
\* data of their direct blocks there, and beyond these no data but their own
\* (ext2fs.c:86-87, 172-173, 350-354, 564-575; 389-391 for the indirect block).
DiskSound == part = "ext2" => E!DiskOwned /\ E!DiskReadsBack

\* Links cover names, and nobody walks into a freed inode (sysfile.c:139-154, 247-255).
LinksCoverNames == part = "dirs" => D!LinksCoverNames

\* The directories stay a tree (sysfile.c:135, 242, 289-293).
DirectoriesFormATree == part = "dirs" => D!DirectoriesFormATree

\* Every name that was linked in an ext2 directory and not unlinked is found, and nothing
\* else; ext2_dirlink panics only when the last record is too near the end of a block
\* (ext2fs.c:587-664, sysfile.c:207-217).
LookupsRight == part = "ext2dir" => R!LookupsRight /\ R!PanicsOnlyWhenFull

\* The kernel reads from mkfs's image what mkfs was given; every block belongs to one
\* inode, and the bitmap marks those in use (mkfs.c:147-182, 254-314).
ImageReadsBack == part = "mkfs" => M!ImageReadsBack /\ M!ImageOwned
=============================================================================
