------------------------------ MODULE Ext2Dir -------------------------------
(***************************************************************************)
(* A directory of the ext2 file system as records of variable length:      *)
(* ext2_dirlookup, ext2_dirlink (ext2fs.c), ext2_unlink, ext2_isdirempty   *)
(* (sysfile.c).  dir[off] is the record whose header is at offset off.     *)
(* Every read is of a whole struct, DE bytes, and panics if fewer remain.  *)
(***************************************************************************)
EXTENDS Integers, Sequences, SequencesExt, FiniteSets, TLC

CONSTANTS Names, NameLen,   \* the names that are linked, and their lengths
          Inums,
          BSIZE, NBLOCK,    \* bound: blocks of the directory
          DE,               \* sizeof(de)
          HDR               \* sizeof(de) - EXT2_NAME_LEN

VARIABLES dir, size, panicked,
          model             \* the names that should be there, and their inodes

vars == <<dir, size, panicked, model>>

None == [inode |-> 0, rec_len |-> 0, name |-> ".", name_len |-> 0]
Offsets == 0..NBLOCK * BSIZE - 1

\* create has made the directory: "." takes the first block, and the link of ".."
\* has split it.
Dot == [inode |-> 1, rec_len |-> HDR + 1, name |-> ".", name_len |-> 1]
DotDot == [inode |-> 1, rec_len |-> BSIZE - HDR - 1, name |-> "..", name_len |-> 2]

Init == /\ dir = [o \in Offsets |-> IF o = 0 THEN Dot ELSE IF o = HDR + 1 THEN DotDot ELSE None]
        /\ size = BSIZE
        /\ panicked = FALSE
        /\ model = [n \in {} |-> 0]

\* The offsets a loop over the records visits, up to the end or to a short read.
RECURSIVE walk(_)
walk(off) == IF off >= size \/ off + DE > size \/ dir[off].rec_len = 0 THEN <<off>>
             ELSE <<off>> \o walk(off + dir[off].rec_len)

ends == Last(walk(0)) >= size                \* the loop runs to the end
visited == Front(walk(0))

\* ext2_dirlookup: where the name is found; the first hit is returned.
hits(n) == SelectSeq(visited, LAMBDA o : dir[o].inode # 0 /\ dir[o].name = n)

\* ext2_dirlookup comes to a record it cannot read whole.
shortRead(n) == hits(n) = <<>> /\ ~ends

\* The last record of a block, with room behind it.
spare(o) == dir[o].rec_len > DE /\ dir[o].rec_len = BSIZE - (o % BSIZE)

\* What a record keeps when it is split.
used(o) == HDR + dir[o].name_len

Entry(n, i, len) == [inode |-> i, rec_len |-> len, name |-> n, name_len |-> NameLen[n]]

\* ext2_dirlink splits the first spare record, or adds a block.  The shortened
\* record is written before the place behind it is read.
ext2_dirlink(n, i) ==
  LET spares == SelectSeq(visited, spare)
      o == Head(spares)
      new == o + used(o)
  IN /\ ~panicked /\ hits(n) = <<>>
     /\ \/ /\ shortRead(n)
           /\ panicked' = TRUE
           /\ UNCHANGED <<dir, size, model>>
        \/ /\ ends /\ spares # <<>> /\ new + DE > size
           /\ dir' = [dir EXCEPT ![o].rec_len = used(o)]
           /\ panicked' = TRUE
           /\ UNCHANGED <<size, model>>
        \/ /\ ends /\ spares # <<>> /\ new + DE <= size
           /\ dir' = [dir EXCEPT ![o].rec_len = used(o),
                                 ![new] = Entry(n, i, BSIZE - (new % BSIZE))]
           /\ size' = new + BSIZE - (new % BSIZE)
           /\ model' = (n :> i) @@ model
           /\ UNCHANGED panicked
        \/ /\ ends /\ spares = <<>> /\ size < NBLOCK * BSIZE
           /\ dir' = [dir EXCEPT ![size] = Entry(n, i, BSIZE)]
           /\ size' = size + BSIZE
           /\ model' = (n :> i) @@ model
           /\ UNCHANGED panicked

unlinked_Inode(o) == [dir[o] EXCEPT !.name_len = 0]

\* ext2_unlink clears the record but for its length.
unlinked(o) == [None EXCEPT !.rec_len = dir[o].rec_len]

\* sys_unlink of a name.
ext2_unlink(n) ==
  /\ ~panicked
  /\ \/ /\ hits(n) # <<>>
        /\ dir' = [dir EXCEPT ![Head(hits(n))] = unlinked(Head(hits(n)))]
        /\ model' = [m \in DOMAIN model \ {n} |-> model[m]]
        /\ UNCHANGED <<size, panicked>>
     \/ shortRead(n) /\ panicked' = TRUE /\ UNCHANGED <<dir, size, model>>

\* The machine is started again; the directory is as the disk has it.
reboot == panicked /\ panicked' = FALSE /\ UNCHANGED <<dir, size, model>>

Next == \/ \E n \in Names : ext2_unlink(n) \/ \E i \in Inums : ext2_dirlink(n, i)
        \/ reboot

Spec == Init /\ [][Next]_vars

-----------------------------------------------------------------------------
ext2_isdirempty == \A k \in DOMAIN visited :
                     LET r == dir[visited[k]] IN r.name \in {".", ".."} \/ r.inode = 0

\* A lookup finds exactly the names that were linked and not unlinked, with their
\* inodes, however often records were split and cleared; and the directory counts as
\* empty just when it has none (ext2fs.c:593-609, 628-663, sysfile.c:183-217).
LookupsRight ==
  /\ \A n \in Names : (hits(n) # <<>>) <=> n \in DOMAIN model
  /\ \A n \in DOMAIN model : dir[Head(hits(n))].inode = model[n]
  /\ ends => (ext2_isdirempty <=> DOMAIN model = {})

Longest == CHOOSE k \in {NameLen[n] : n \in Names} : \A n \in Names : NameLen[n] <= k

\* A directory that makes the kernel panic has had so many records, cleared ones
\* included, that longest names would have come within DE bytes of the end of a
\* block (ext2fs.c:594, 642-643).
PanicsOnlyWhenFull ==
  panicked => Cardinality({o \in Offsets : dir[o].rec_len > 0}) * (HDR + Longest) > BSIZE - DE
=============================================================================
