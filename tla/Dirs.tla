-------------------------------- MODULE Dirs --------------------------------
(***************************************************************************)
(* Names: namex, dirlookup and dirlink of fs.c, and create, sys_link and   *)
(* sys_unlink of sysfile.c, by processes that lock the inodes involved.  A *)
(* directory maps names to inodes; a section under one lock is a step, and *)
(* so is every acquisition of a lock while another is held, iput's         *)
(* included.  References are the pointers that processes have.             *)
(***************************************************************************)
EXTENDS Integers, Sequences, FiniteSets, FiniteSetsExt

CONSTANTS Procs, Nobody,
          NINODES,       \* inode 1 is the root
          Names, Paths,  \* paths from the root, without "." and ".."
          Types,         \* what is created, among "dir" and "file"
          MaxLinks       \* bound: no link while a file has as many

VARIABLES inode,     \* each inode: type, links, entries (0 for none) and ..
          lock,      \* each inode: who holds its sleep lock
          proc       \* each process: its call

vars == <<inode, lock, proc>>

Inodes == 1..NINODES
Root == 1
NoEntries == [n \in Names |-> 0]
Free == [type |-> "free", nlink |-> 0, ents |-> NoEntries, dotdot |-> 0]
Idle == [pc |-> "idle", call |-> "none", path |-> <<>>, type |-> "none", new |-> <<>>, dp |-> 0, ip |-> 0, f |-> 0]

Init == /\ inode = [i \in Inodes |-> IF i = Root THEN [type |-> "dir", nlink |-> 1, ents |-> NoEntries, dotdot |-> Root]
                                     ELSE Free]
        /\ lock = [i \in Inodes |-> Nobody]
        /\ proc = [p \in Procs |-> Idle]

At(p, l) == proc[p].pc = l
Unlocked(i) == lock[i] = Nobody
Become(p, q) == proc' = [proc EXCEPT ![p] = q]
Goto(p, l) == Become(p, [proc[p] EXCEPT !.pc = l])
Finish(p) == Become(p, Idle)

\* The other processes that have a pointer to i.
Holders(i, p) == {q \in Procs \ {p} : i \in {proc[q].dp, proc[q].ip, proc[q].f}}

\* iput by p in the inode table t: an inode without links or users is freed.
iput(t, i, p) == IF t[i].nlink = 0 /\ Holders(i, p) = {} THEN [t EXCEPT ![i] = Free] ELSE t

\* The inode that the directory d has under the name n, 0 if none.
dirlookup(d, n) == inode[d].ents[n]

-----------------------------------------------------------------------------
\* A system call: walk the path to the last name (nameiparent) or to its end.
Call(p, c, path, type, new) ==
  /\ At(p, "idle")
  /\ Become(p, [Idle EXCEPT !.pc = "namex", !.call = c, !.path = path, !.type = type, !.new = new, !.dp = Root])
  /\ UNCHANGED <<inode, lock>>

sys_create(p) == \E path \in Paths, t \in Types : Call(p, "create", path, t, <<>>)
sys_unlink(p) == \E path \in Paths : Call(p, "unlink", path, "none", <<>>)
sys_link(p) == /\ \A i \in Inodes : inode[i].type = "file" => inode[i].nlink < MaxLinks
               /\ \E old, new \in Paths : Call(p, "link", old, "none", new)

\* Where a failed walk goes: sys_link has to take back its link.
Lost(p) == IF proc[p].call = "linkat" THEN [proc[p] EXCEPT !.pc = "bad", !.dp = 0] ELSE Idle

\* One element of namex, under the lock of dp, which is put.
namex(p) ==
  LET d == proc[p].dp
      next == dirlookup(d, Head(proc[p].path))
      last == Len(proc[p].path) = 1
  IN /\ At(p, "namex") /\ Unlocked(d)
     /\ \/ /\ inode[d].type # "dir"
           /\ inode' = iput(inode, d, p) /\ Become(p, Lost(p))
        \/ /\ inode[d].type = "dir" /\ last /\ proc[p].call # "link"
           /\ Goto(p, "parent")
           /\ UNCHANGED inode
        \/ /\ inode[d].type = "dir" /\ ~(last /\ proc[p].call # "link")
           /\ inode' = iput(inode, d, p)
           /\ Become(p, IF next = 0 THEN Lost(p)
                        ELSE IF last THEN [proc[p] EXCEPT !.pc = "old", !.dp = 0, !.ip = next]
                        ELSE [proc[p] EXCEPT !.path = Tail(@), !.dp = next])
     /\ UNCHANGED lock

-----------------------------------------------------------------------------
\* create: with dp locked, look the name up, allocate, enter it; then dp is unlocked
\* and put, while the new inode is locked.
create(p) ==
  LET d == proc[p].dp
      n == Head(proc[p].path)
      dir == proc[p].type = "dir"
      free == {i \in Inodes : inode[i].type = "free" /\ Holders(i, p) = {}}
      i == Min(free)
  IN /\ At(p, "parent") /\ proc[p].call = "create" /\ Unlocked(d)
     /\ \/ /\ dirlookup(d, n) # 0
           /\ Become(p, [proc[p] EXCEPT !.pc = "put", !.ip = dirlookup(d, n), !.dp = 0])
           /\ inode' = iput(inode, d, p)
           /\ UNCHANGED lock
        \/ /\ dirlookup(d, n) = 0 /\ free # {}
           /\ inode' = [inode EXCEPT ![i] = [type |-> proc[p].type, nlink |-> 1, ents |-> NoEntries,
                                             dotdot |-> IF dir THEN d ELSE 0],
                                     ![d].ents[n] = i, ![d].nlink = IF dir THEN @ + 1 ELSE @]
           /\ lock' = [lock EXCEPT ![i] = p]
           /\ Become(p, [proc[p] EXCEPT !.pc = "putdp", !.ip = i])

\* ialloc panics when there is no inode; the process holds dp for good.
create_panic(p) ==
  /\ At(p, "parent") /\ proc[p].call = "create" /\ Unlocked(proc[p].dp)
  /\ dirlookup(proc[p].dp, Head(proc[p].path)) = 0
  /\ \A i \in Inodes : inode[i].type # "free" \/ Holders(i, p) # {}
  /\ lock' = [lock EXCEPT ![proc[p].dp] = p]
  /\ Goto(p, "panic")
  /\ UNCHANGED inode

\* iput of dp in create and sys_unlink takes dp's lock again, with ip locked; then
\* sys_unlink drops the link, and ip is unlocked.
putdp(p) ==
  LET i == proc[p].ip
      t == IF proc[p].call = "unlink" THEN [inode EXCEPT ![i].nlink = @ - 1] ELSE inode
  IN /\ At(p, "putdp") /\ Unlocked(proc[p].dp)
     /\ inode' = iput(t, proc[p].dp, p)
     /\ lock' = [lock EXCEPT ![i] = Nobody]
     /\ Become(p, [proc[p] EXCEPT !.pc = "put", !.dp = 0])

\* The last iput of a call.
put(p) == /\ At(p, "put") /\ Unlocked(proc[p].ip)
          /\ inode' = iput(inode, proc[p].ip, p)
          /\ Finish(p)
          /\ UNCHANGED lock

-----------------------------------------------------------------------------
\* sys_unlink: dp is locked, then the inode found in it.
unlink_dp(p) ==
  LET d == proc[p].dp
      i == dirlookup(d, Head(proc[p].path))
  IN /\ At(p, "parent") /\ proc[p].call = "unlink" /\ Unlocked(d)
     /\ IF i = 0 THEN inode' = iput(inode, d, p) /\ Finish(p) /\ UNCHANGED lock
        ELSE /\ lock' = [lock EXCEPT ![d] = p]
             /\ Become(p, [proc[p] EXCEPT !.pc = "unlink", !.ip = i])
             /\ UNCHANGED inode

isdirempty(i) == inode[i].ents = NoEntries

\* A directory must be empty.  The entry goes, and dp's lock, before ip's link count.
unlink_ip(p) ==
  LET d == proc[p].dp
      i == proc[p].ip
      n == Head(proc[p].path)
      dir == inode[i].type = "dir"
  IN /\ At(p, "unlink") /\ Unlocked(i)
     /\ \/ inode[i].nlink < 1 /\ Goto(p, "panic") /\ UNCHANGED <<inode, lock>>
        \/ /\ inode[i].nlink >= 1 /\ dir /\ ~isdirempty(i)
           /\ Goto(p, "notempty")
           /\ UNCHANGED <<inode, lock>>
        \/ /\ inode[i].nlink >= 1 /\ ~(dir /\ ~isdirempty(i))
           /\ inode' = [inode EXCEPT ![d].ents[n] = 0, ![d].nlink = IF dir THEN @ - 1 ELSE @]
           /\ lock' = [lock EXCEPT ![d] = Nobody, ![i] = p]
           /\ Goto(p, "putdp")

\* The directory is put with dp locked, then dp.
unlink_notempty(p) ==
  /\ At(p, "notempty") /\ Unlocked(proc[p].ip)
  /\ inode' = iput(iput(inode, proc[p].ip, p), proc[p].dp, p)
  /\ lock' = [lock EXCEPT ![proc[p].dp] = Nobody]
  /\ Finish(p)

-----------------------------------------------------------------------------
link_old_Later(p) ==
  LET i == proc[p].ip
      at == [proc[p] EXCEPT !.pc = "namex", !.call = "linkat", !.path = proc[p].new, !.dp = Root]
  IN /\ At(p, "old") /\ Unlocked(i)
     /\ Become(p, IF inode[i].type = "dir" THEN [Idle EXCEPT !.pc = "put", !.ip = i] ELSE at)
     /\ UNCHANGED <<inode, lock>>

link_old_Any(p) ==
  /\ At(p, "old") /\ Unlocked(proc[p].ip)
  /\ inode' = [inode EXCEPT ![proc[p].ip].nlink = @ + 1]
  /\ Become(p, [proc[p] EXCEPT !.pc = "namex", !.call = "linkat", !.path = proc[p].new, !.dp = Root])
  /\ UNCHANGED lock

\* sys_link: a link for the inode first, then the walk to the new name's directory.
link_old(p) ==
  LET i == proc[p].ip
      at == [proc[p] EXCEPT !.pc = "namex", !.call = "linkat", !.path = proc[p].new, !.dp = Root]
  IN /\ At(p, "old") /\ Unlocked(i)
     /\ \/ /\ inode[i].type = "dir"
           /\ Become(p, [Idle EXCEPT !.pc = "put", !.ip = i])
           /\ UNCHANGED inode
        \/ /\ inode[i].type # "dir"
           /\ inode' = [inode EXCEPT ![i].nlink = @ + 1]
           /\ Become(p, at)
     /\ UNCHANGED lock

\* dirlink: the name must be new; the inode found is put with dp locked.
link_dp(p) ==
  LET d == proc[p].dp
      n == Head(proc[p].path)
  IN /\ At(p, "parent") /\ proc[p].call = "linkat" /\ Unlocked(d)
     /\ IF dirlookup(d, n) # 0
        THEN /\ lock' = [lock EXCEPT ![d] = p]
             /\ Become(p, [proc[p] EXCEPT !.pc = "exists", !.f = dirlookup(d, n)])
             /\ UNCHANGED inode
        ELSE /\ inode' = iput([inode EXCEPT ![d].ents[n] = proc[p].ip], d, p)
             /\ Become(p, [proc[p] EXCEPT !.pc = "put", !.dp = 0])
             /\ UNCHANGED lock

link_exists(p) ==
  /\ At(p, "exists") /\ Unlocked(proc[p].f)
  /\ inode' = iput(IF proc[p].f = proc[p].ip THEN inode ELSE iput(inode, proc[p].f, p), proc[p].dp, p)
  /\ lock' = [lock EXCEPT ![proc[p].dp] = Nobody]
  /\ Become(p, [proc[p] EXCEPT !.pc = "bad", !.dp = 0, !.f = 0])

\* The link is taken back.
link_bad(p) ==
  /\ At(p, "bad") /\ Unlocked(proc[p].ip)
  /\ inode' = iput([inode EXCEPT ![proc[p].ip].nlink = @ - 1], proc[p].ip, p)
  /\ Finish(p)
  /\ UNCHANGED lock

Next == \E p \in Procs : \/ sys_create(p) \/ sys_unlink(p) \/ sys_link(p) \/ namex(p)
                         \/ create(p) \/ create_panic(p) \/ putdp(p) \/ put(p)
                         \/ unlink_dp(p) \/ unlink_ip(p) \/ unlink_notempty(p)
                         \/ link_old(p) \/ link_dp(p) \/ link_exists(p) \/ link_bad(p)

Spec == Init /\ [][Next]_vars

-----------------------------------------------------------------------------
\* The entries for i, and the .. of its subdirectories, in directories with a name.
Named(i) == {e \in Inodes \X Names : inode[e[1]].type = "dir" /\ inode[e[1]].nlink > 0 /\ inode[e[1]].ents[e[2]] = i}
Kids(i) == {k \in Inodes \ {Root} : inode[k].type = "dir" /\ Named(k) # {} /\ inode[k].dotdot = i}

\* An inode has at least as many links as there are names for it, at every moment of
\* every call, and what a name or a process leads to is allocated: nobody walks into
\* an inode that was freed (sysfile.c:139-154, 247-255, 286-304).
LinksCoverNames ==
  /\ \A i \in Inodes : inode[i].nlink >= Cardinality(Named(i)) + Cardinality(Kids(i))
  /\ \A i \in Inodes : Named(i) # {} => inode[i].type # "free"
  /\ \A p \in Procs : \A i \in {proc[p].dp, proc[p].ip, proc[p].f} \ {0} : inode[i].type # "free"

\* A directory that has a name is where its .. says, and nowhere else: the tree stays
\* a tree under concurrent mkdir, rmdir and link (sysfile.c:135, 242, 289-293).
DirectoriesFormATree ==
  \A i \in Inodes \ {Root} : inode[i].type = "dir" =>
    /\ Cardinality(Named(i)) <= 1
    /\ \A e \in Named(i) : e[1] = inode[i].dotdot

Waits(p) == CASE proc[p].pc \in {"putdp"} -> proc[p].dp
              [] proc[p].pc \in {"unlink", "notempty"} -> proc[p].ip
              [] proc[p].pc = "exists" -> proc[p].f
              [] OTHER -> 0

\* No two processes wait for each other's inode locks (usertests.c:763: "test
\* concurrent create/link/unlink of the same file").
NoStandoff ==
  \A p, q \in Procs : ~(p # q /\ Waits(p) # 0 /\ Waits(q) # 0 /\ lock[Waits(p)] = q /\ lock[Waits(q)] = p)
=============================================================================
