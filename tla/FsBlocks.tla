------------------------------ MODULE FsBlocks ------------------------------
(***************************************************************************)
(* File contents in the built-in file system: balloc, bfree, bmap, itrunc, *)
(* readi and writei of fs.c, and the loop of filewrite that splits a write *)
(* into transactions.  A transaction is a step (module Log).  A cell of a  *)
(* block holds a byte of a file, known by file and position, or a block    *)
(* number of an indirect block; freed blocks keep some such numbers.       *)
(***************************************************************************)
EXTENDS Integers, Sequences, SequencesExt, FiniteSets, FiniteSetsExt

CONSTANTS Files, Writers,
          NBLOCK,        \* data blocks
          BSIZE, NDIRECT, NINDIRECT,
          MaxChunk,      \* filewrite's max
          MaxWrite,      \* bound: bytes of a call
          OpBlocks       \* what a transaction writes at most

VARIABLES disk,      \* bitmap, and the blocks
          dip, ip,   \* each file: its inode on disk and in memory
          wr,        \* each writer: file, offset and bytes left of its filewrite
          touched,   \* how many blocks the last transaction logged
          panicked

vars == <<disk, dip, ip, wr, touched, panicked>>

Blocks == 1..NBLOCK
MAXFILE == NDIRECT + NINDIRECT
Cells == 0..BSIZE - 1
Zero == <<0, 0>>
Ptr(b) == <<0, b>>
Byte(f, pos) == <<f, pos>>
ZeroBlock == [i \in Cells |-> Zero]
Stale == [i \in Cells |-> Ptr(1)]
Bitmap == -1      \* the bitmap and inode blocks, among the blocks logged
Inodes == -2

Empty == [addrs |-> [i \in 0..NDIRECT |-> 0], size |-> 0]
Idle == [f |-> 0, off |-> 0, left |-> 0]

Init == /\ disk = [used |-> {}, blk |-> [b \in Blocks |-> Stale]]
        /\ dip = [f \in Files |-> Empty] /\ ip = dip
        /\ wr = [w \in Writers |-> Idle]
        /\ touched = 0
        /\ panicked = FALSE

-----------------------------------------------------------------------------
(* The functions of fs.c take and give a record t: disk, addrs and log.    *)

\* The first free block, zeroed.
balloc(t) ==
  LET b == Min(Blocks \ t.disk.used)
  IN [t EXCEPT !.disk.used = @ \union {b}, !.disk.blk[b] = ZeroBlock,
               !.log = @ \union {Bitmap, b}, !.addr = b]

\* An entry of addrs, allocated if it is 0.
direct(t, i) ==
  IF t.addrs[i] # 0 THEN [t EXCEPT !.addr = t.addrs[i]]
  ELSE LET u == balloc(t) IN [u EXCEPT !.addrs[i] = u.addr]

\* The block of the file's block bn, in t.addr.
bmap(t, bn) ==
  IF bn < NDIRECT THEN direct(t, bn)
  ELSE LET u == direct(t, NDIRECT)
           a == u.disk.blk[u.addr][bn - NDIRECT][2]
           v == balloc(u)
       IN IF a # 0 THEN [u EXCEPT !.addr = a]
          ELSE [v EXCEPT !.disk.blk[u.addr][bn - NDIRECT] = Ptr(v.addr), !.log = @ \union {u.addr}]

\* The file's blocks that bytes off .. off+n-1 are in.
BlocksOf(off, n) == [i \in 1..((off + n - 1) \div BSIZE - off \div BSIZE + 1) |-> off \div BSIZE + i - 1]

toobig(off, n) == off + n > MAXFILE * BSIZE

\* The loop of writei, with bytes of file f.
copyin(t, f, off, n) ==
  FoldLeft(LAMBDA u, bn :
             LET v == bmap(u, bn)
             IN [v EXCEPT !.disk.blk[v.addr] =
                     [i \in Cells |-> LET pos == bn * BSIZE + i IN
                                      IF off <= pos /\ pos < off + n THEN Byte(f, pos) ELSE @[i]],
                   !.log = @ \union {v.addr}],
           t, BlocksOf(off, n))

\* The blocks that have to be allocated for a write, by the shape of the file.
needed(f, off, n) ==
  LET have == (ip[f].size + BSIZE - 1) \div BSIZE
      want == (off + n + BSIZE - 1) \div BSIZE
      ind(k) == IF k > NDIRECT THEN 1 ELSE 0
  IN IF want <= have THEN 0 ELSE want + ind(want) - have - ind(have)

\* iupdate writes the inode to disk.
iupdate(f, t, size) == dip' = [dip EXCEPT ![f] = [addrs |-> t.addrs, size |-> size]]

\* writei in a transaction of its own; result r, -1 if refused.
writei(f, off, n) ==
  LET t == copyin([disk |-> disk, addrs |-> ip[f].addrs, log |-> {}, addr |-> 0], f, off, n)
      grows == off + n > ip[f].size
      size == IF grows THEN off + n ELSE ip[f].size
  IN /\ disk' = t.disk
     /\ ip' = [ip EXCEPT ![f] = [addrs |-> t.addrs, size |-> size]]
     /\ IF grows THEN iupdate(f, t, size) ELSE UNCHANGED dip
     /\ touched' = Cardinality(t.log \union (IF grows THEN {Inodes} ELSE {}))

chunk_All(left) == left

chunk(left) == Min({left, MaxChunk})

\* A call of filewrite, at an offset that an earlier call has reached.
filewrite(w, f, off, n) ==
  /\ wr[w] = Idle /\ off <= ip[f].size /\ ~panicked
  /\ wr' = [wr EXCEPT ![w] = [f |-> f, off |-> off, left |-> n]]
  /\ UNCHANGED <<disk, dip, ip, touched, panicked>>

\* One turn of its loop: begin_op, ilock, writei, iunlock, end_op.
filewrite_chunk(w) ==
  /\ wr[w] # Idle /\ ~panicked
  /\ LET f == wr[w].f
         off == wr[w].off
         n == chunk(wr[w].left)
     IN \/ /\ toobig(off, n)
           /\ wr' = [wr EXCEPT ![w] = Idle]
           /\ UNCHANGED <<disk, dip, ip, touched, panicked>>
        \/ /\ ~toobig(off, n) /\ needed(f, off, n) > NBLOCK - Cardinality(disk.used)
           /\ panicked' = TRUE
           /\ UNCHANGED <<disk, dip, ip, wr, touched>>
        \/ /\ ~toobig(off, n) /\ needed(f, off, n) <= NBLOCK - Cardinality(disk.used)
           /\ writei(f, off, n)
           /\ wr' = [wr EXCEPT ![w] = IF n = wr[w].left THEN Idle
                                      ELSE [f |-> f, off |-> off + n, left |-> wr[w].left - n]]
           /\ UNCHANGED panicked

\* The blocks itrunc hands to bfree.
entries(f) ==
  LET ind == ip[f].addrs[NDIRECT]
  IN ({ip[f].addrs[i] : i \in 0..NDIRECT} \union
      (IF ind = 0 THEN {} ELSE {disk.blk[ind][j][2] : j \in 0..NINDIRECT - 1})) \ {0}

\* The bits of bs are cleared; what the blocks hold does not matter from then on.
bfree(bs) == disk' = [used |-> disk.used \ bs, blk |-> [b \in Blocks |-> IF b \in bs THEN Stale ELSE disk.blk[b]]]

\* iput of a file without links or users: itrunc and iupdate; bfree panics on a free
\* block.  The inode is then used for another file.
itrunc(f) ==
  /\ \A w \in Writers : wr[w].f # f
  /\ ~panicked /\ ip[f].size > 0
  /\ panicked' = ~(entries(f) \subseteq disk.used)
  /\ bfree(entries(f))
  /\ ip' = [ip EXCEPT ![f] = Empty]
  /\ dip' = [dip EXCEPT ![f] = Empty]
  /\ touched' = Cardinality({Bitmap, Inodes})
  /\ UNCHANGED wr

Next == \/ \E w \in Writers : \/ filewrite_chunk(w)
                              \/ \E f \in Files, off \in 0..MAXFILE * BSIZE, n \in 1..MaxWrite :
                                   filewrite(w, f, off, n)
        \/ \E f \in Files : itrunc(f)

Spec == Init /\ [][Next]_vars

-----------------------------------------------------------------------------
\* readi of one byte: bmap finds a block for every byte of the file.
readi(f, pos) ==
  LET bn == pos \div BSIZE
      ind == ip[f].addrs[NDIRECT]
      b == IF bn < NDIRECT THEN ip[f].addrs[bn]
           ELSE IF ind = 0 THEN 0 ELSE disk.blk[ind][bn - NDIRECT][2]
  IN IF b = 0 THEN Zero ELSE disk.blk[b][pos % BSIZE]

\* Every byte of every file reads as it was last written, across the border to the
\* indirect block, after blocks have gone from file to file, and with writers of the
\* same file between each other's transactions (fs.c:433-575).
ReadsBack == \A f \in Files : \A pos \in 0..ip[f].size - 1 : readi(f, pos) = Byte(f, pos)

\* A block is marked in the bitmap exactly if an inode on disk leads to it, and at
\* most once; so nothing leaks or is freed twice (fs.c:92-131, 470-499).
BlocksOwned ==
  /\ disk.used = UNION {entries(f) : f \in Files}
  /\ \A f, g \in Files : f # g => entries(f) \intersect entries(g) = {}
  /\ ip = dip

\* A turn of filewrite's loop stays within the blocks that a call may write, which
\* the proofs about the log rest on (file.c:131-143).
WriteFits == touched <= OpBlocks
=============================================================================
