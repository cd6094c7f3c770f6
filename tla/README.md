# Verification of the xv6 kernel with an ext2 file system

The repository is a small Unix kernel (xv6, 32-bit x86, several CPUs) to which a
second file system, ext2, was added behind a table of inode operations. This
directory holds TLA+ models of the kernel, of the program that builds its disk image
and of some user programs, TLC configurations that check them, and TLAPS proofs
about the log.

## Inventory

| Part | Source | State | Operations | Model |
|---|---|---|---|---|
| Log | `log.c` | header and log blocks on disk, `log.lh`, `outstanding`, `committing` | `begin_op`, `log_write`, `end_op`/`commit`, recovery | `Log`, `JournaledStore`; proofs in `LogInvariant`, `LogWriteProofs`, `LogProofs`, `LogRefinement` |
| Buffer cache, disk driver, sleep locks | `bio.c`, `ide.c`, `sleeplock.c` | buffers, flags, LRU list, request queue | `bget`, `bwrite`, `brelse`, `iderw`, `ideintr` | `BufferCache`, `BlockStore` |
| Pipes | `pipe.c` | ring, counters, open ends | `pipewrite`, `piperead`, `pipeclose` | `Pipe`, `BoundedFifo` |
| Inode cache | `fs.c`, `ext2fs.c` | entries, `ref`, `valid`, `file_type`, `addrs` pools | `iget`, `idup`, `ilock`, `iput`, `ialloc` | `Icache` |
| Blocks of the built-in fs | `fs.c`, `file.c` | bitmap, blocks, inodes | `balloc`, `bmap`, `itrunc`, `readi`, `writei`, `filewrite` | `FsBlocks` |
| Names | `fs.c`, `sysfile.c` | directories, link counts, inode locks | `namex`, `dirlookup`, `dirlink`, `create`, `sys_link`, `sys_unlink` | `Dirs` |
| Blocks of ext2 | `ext2fs.c` | bitmaps, blocks, inodes, on disk and in buffers | `ext2_ialloc`, `ext2_balloc`, `ext2_bmap`, `ext2_writei`, `ext2_itrunc` | `Ext2Blocks` |
| Directories of ext2 | `ext2fs.c`, `sysfile.c` | records of directory blocks | `ext2_dirlink`, `ext2_dirlookup`, `ext2_unlink` | `Ext2Dir` |
| Image | `mkfs.c` | image, next free inode and block | `ialloc`, `iappend`, `balloc`, `main` | `Mkfs` |
| File table | `file.c`, `sysfile.c`, `pipe.c` | files, descriptors, pipe pages | `filealloc`, `filedup`, `fileclose`, `sys_open`, `sys_pipe`, `fork`, `exit` | `Files` |
| Processes, timer | `proc.c`, `trap.c`, `sysproc.c` | process table, CPUs, `ticks` | `fork`, `exit`, `wait`, `sleep`, `wakeup`, `kill`, scheduler, `sys_sleep` | `Proc` |
| Spin locks | `spinlock.c`, `trapasm.S` | `ncli`, `intena`, interrupt flag | `acquire`, `release`, `pushcli`, `popcli` | `Spinlock` |
| Console | `console.c` | input ring `r`, `w`, `e`, cursor | `consoleintr`, `consoleread`, `consolewrite` | `Console`, `LineInput` |
| Memory | `kalloc.c`, `vm.c`, `exec.c` | free pages, address spaces | `kalloc`, `kfree`, `copyuvm`, `allocuvm`, `exec`, `growproc` | `Vm` |
| Start of the CPUs | `main.c`, `lapic.c`, `entryother.S` | stacks, free list, `use_lock` | `startothers`, `mpmain`, `kinit2` | `Boot` |
| Shell | `sh.c`, `echo.c`, `cat.c`, `wc.c` | processes, descriptors, pipes | `runcmd`, `main` | `Shell` |
| Shell parser | `sh.c` | line, tree | `parsecmd`, `nulterminate` | `ShParse` |
| User heap | `umalloc.c` | list of free blocks | `malloc`, `free`, `morecore` | `Umalloc` |
| grep | `grep.c` | buffer | `grep`, `match` | `Grep` |

How they interact: system calls run between `begin_op` and `end_op`; they change
inodes under inode sleep locks and blocks under buffer sleep locks; `log_write`
pins changed buffers in the cache until `commit` has written them; the buffer
cache sleeps for the disk driver, whose interrupt handler completes requests.
ext2 writes its blocks with `bwrite` and so bypasses the log. Everybody sleeps and
wakes through `proc.c`, and the programs use the calls of `sysfile.c` and `proc.c`.

Each module takes its neighbours by their promise: `FsBlocks` takes a transaction as
one step, which `Log` justifies (`Atomic`); `Log` takes the cache as cached and pinned
copies, which `BufferCache` justifies (`BlocksAreRegisters`); all of them take
`sleep` and spin-locked sections as atomic, which `Proc` and `Spinlock` justify;
`Shell` has pipes that `Pipe` and descriptors that `Files` look at closely.

`PROJECT.json` lists what is hard to test, each hazard with its line and the
properties that cover it.

## Modules

**JournaledStore** is the promise of the log: a store of blocks with a `durable`
and a `current` content. Calls write to `current`; when none is active it may
become `durable`; a crash goes back to `durable`.

**Log** models `log.c` at the grain of critical sections and single block
writes. `home`, `logblk` and `hdr` are on disk, `cache` and `dirty` are what the
buffer cache holds and pins, `op[p]` says where process `p` is. `log_write` is
two steps, since the full test precedes `acquire(&log.lock)`. A `Crash` may tear
the log or home block being written; the header block is written atomically, which the
format relies on. `OpBlocks` is what a call really writes, `MAXOPBLOCKS` what is
reserved for it, `Nlog` the blocks of the log including its header. `Atomic`
maps `durable` to what recovery would restore now.

**BlockStore** is the promise of the buffer cache: every block a register that
one process at a time owns. **BufferCache** models `bio.c`, `sleeplock.c` and
`ide.c`. A process goes through `bget`, `acquiresleep`, the request queue, and
`brelse`; `bget` and `brelse` each give up one lock before taking the next. The
drive (`DiskDone`) is external: it finishes a command and interrupts. `MaxPinned`
bounds the buffers that `log_write` keeps dirty. A command waits until the drive is
free, as `idewait` spins. `Spurious` admits secondary-channel interrupts that no
command caused.

**BoundedFifo** and **Pipe** model `pipe.c`. One pass of a loop up to the next
sleep is a step, as `p->lock` is held; the state "about to sleep" is kept apart
because `kill` does not take that lock. Counters are modulo `Word`, a multiple of
`PIPESIZE` like 2^32.

**Icache** models the inode cache that `fs.c` and `ext2fs.c` share, with files
created, opened, unlinked, closed and inherited. Two directories, one for each
file system, appear as locks. The steps of `iput` that free an inode are separate,
because `ialloc` can run between them; a use of a cleared pointer leads to
`"fault"`, a failed check of the kernel to `"assert"`, a full table to `"panic"`.

**FsBlocks** has the functions of `fs.c` as operators on a record (disk, `addrs`,
blocks logged) and a transaction of `filewrite`'s loop as a step. A byte of a file is
the pair of the file and its position, so a read shows whose byte it got. Freed
blocks hold block numbers, so a block that is not zeroed shows. `dip` is the inode on
disk, `ip` the one in memory.

**Dirs** has inodes with a type, a link count, entries and `..`, and processes that
walk a path (`namex`, one element a step) and then create, unlink or link. Each
section under a lock is a step, and so is every wait for a lock while another is
held, those of `iput` included. A reference is a pointer some process has; an inode
that nobody points to is taken at once by `iput` and `ialloc` (`Icache` has their
steps).

**Ext2Blocks** keeps what is on disk (`bbm`, `ibm`, `blk`, `dino`) apart from
buffers and inodes in memory (`mem`, `ip`); every `bwrite` is a step. With `Crashes`
the machine may stop between any two, with `Evictions` a buffer may be recycled. The
lookups of the double-indirect range index the first level's buffer twice, as the
code does, and so does truncation (`ext2_itrunc_dind`).

**Ext2Dir** has directory records by offset with their lengths, as `ext2_dirlink`
splits and extends them and `ext2_unlink` clears them; `model` is the set of names
that should be found.

**Mkfs** models the order in which `mkfs.c` hands out inodes and blocks, the
indirect block of `iappend`, rounding the root's size, and the bitmap. The reference
is what it was given.

**Files** has `ftable`, the descriptors, pipe pages and references to one inode, with
the error paths of `pipealloc`, `sys_pipe` and `sys_open`. `fileclose` drops the
reference in one step and closes the end or puts the inode in another.

**Proc** has the process table at the grain of `ptable.lock` and `tickslock`, on
several CPUs; `sleep` is three steps (test, release and sleep, reacquire). `cpu[c]`
says which process or handler a CPU runs. A process makes any calls it likes, `init`
those of `init.c`. **Spinlock** goes one level down: the calls of `acquire`,
`release`, `sched` and `swtch` along `sleep`, `yield`, `scheduler` and the clock
handler, with an interrupt wherever the flag allows one.

**LineInput** is the promise of the console, a queue of finished lines; **Console**
implements it with the ring, where editing happens beyond `w`. **Vm** has each address
space as a set of places (directory, tables, pages, kernel stack) and the number of
free pages; calls allocate page by page, so memory may run out anywhere. **Boot**
has the CPUs up to their scheduler, with `kalloc` as separate reads and writes as
long as `use_lock` is 0.

**Shell** turns a command into the list of system calls that `runcmd` makes, and runs
the processes on pipes and descriptors, with `echo`, `cat` and `wc` at the ends.
**ShParse**, **Umalloc** and **Grep** are algorithms: the recursive descent over
the line with positions where words will be cut, the circular list of `umalloc.c`,
and the matcher with its buffer. Each is compared with a reference (the tree that was
written, a tiling of the heap, a set of reachable positions).

`MC*` modules fix small sets for TLC. `MCIo`, `MCKernel`, `MCStorage` and `MCLive`
hold several components each: `part` says which one a behaviour is of, the variables
of the others are 0, and a property says what holds of each part it is about, in terms
of the invariants its module defines. The parts do not interact there; it is a way to
check them in one run. `MCLines` has the inputs of the shell, its
parser and grep.

## Runs

| Run | Shows |
|---|---|
| `log` | two processes, crashes anywhere: type correctness, `CommitAlone`, `SleeperHasWaker`, `EvictionSafe`, `LogFits` and refinement `Atomic` with calls that fill the log; the refinement again with calls of two blocks (`CallsAtomic`) |
| `io` | the buffer cache implements registers (`BlocksAreRegisters`) and the pipe a FIFO (`IsFifo`) whose ends never sleep on each other (`SleepIsJustified`); spurious interrupts do not rebind buffers (`HoldsItsBlock`) or strand sleepers (`SleepersAwaitSomething`) |
| `kernel` | processes (`RunningOnce`, `FamilyKept`, `NobodyOversleeps`), locks (`IntenaFollowsThread`), console (`LinesInOrder`, `ConsoleUsable`), memory (`PagesAccounted`), start (`PagesGivenOnce`), files (`ReferencesCounted`), inode cache (`InodesOwned`), programs (`OutputRight`, `ParsesBack`, `HeapTiled`, `GrepRight`) |
| `storage` | both file systems: `ContentsReadBack`, `BitmapExact`; transactions of `filewrite` (`WriteFits`), ext2 through crashes (`DiskSound`), names (`LinksCoverNames`, `DirectoriesFormATree`), ext2 directories (`LookupsRight`), the image (`ImageReadsBack`) |
| `live` | sleepers wake, commits and transfers finish, closing a pipe releases the other end, killed processes end, orphans are reaped, shell jobs end |
| `log_overrun` (violation) | two calls pass the unlocked full test together and overrun the log |
| `cache_spurious` (violation) | a spurious interrupt completes the head of the queue too early |
| `pipe_kill` (violation) | a kill between test and sleep leaves the process asleep |
| `icache_race` (violation) | `ialloc` reuses an entry `iput` is clearing |
| `ext2_evict` (violation) | an entry of an indirect block is lost with its buffer |
| `dirs_standoff` (violation) | create and unlink of one name wait for each other's inode locks |
| `proc_kill` (violation) | `kill(0)` marks a free slot, and the process born there dies |

What is claimed of ext2 stops where the code does. An entry of an indirect block is
never written to disk by `ext2_bmap`, so it goes with its buffer (`ext2_evict`) and in a
crash alike. `ContentsReadBack` is therefore checked with buffers that stay cached and no
crash. `DiskSound` says that after a crash direct blocks of finished writes read back
exactly, and that a block beyond them reads as what was written or as zeros, never as
another file's. In the double-indirect range `ext2_bmap` takes the second level from the
buffer of the first (`bp->data` where `bp1->data` is meant, ext2fs.c:403), so file blocks that share an entry
share a block: `write` of both, `read` of the first, returns the second. No property
claims that this range reads back; `ContentsReadBack` says that what is overwritten is in
that range of the same file.

The violations are described under `findings` in `PROJECT.json`.

**Bounds.** `log` has two processes (a group of calls, a sleeper when the log is
nearly full) and two instances: calls of one block over four blocks and a log that
holds three, so that it fills and only the reservation keeps the fourth out (with
fewer blocks than the log holds, absorption alone would); and calls of two blocks, so
that a crash or a commit could cut one in half. `log_overrun` has three processes, so that two
calls race while the entries of a finished one are still in the log, calls of
exactly `MAXOPBLOCKS` blocks, and `Nlog` = `LOGSIZE` as in `mkfs`.
`io`: more blocks than buffers, so that buffers are recycled, and blocks on both
channels, the same with spurious interrupts but nothing pinned; a ring of two bytes, writes of up to two, and counters modulo 4, so that
they wrap after two fillings.
`kernel`: `Proc` has three slots on two CPUs (a child's child, two schedulers) and
`ticks` modulo 3 with naps of two ticks, the longest there are (what a negative
argument becomes), and again four slots on one CPU, so that a parent that is not `init`
abandons a zombie; `Spinlock` two threads on two CPUs; `Console` a ring of two
characters and indices modulo 4; `Vm` 15 pages for two processes, too few for two
large ones, and page tables of two entries, so that tables run out too; `Boot` three
CPUs and a stack cell they share; `Files` fewer files than two processes have
descriptors; `Icache` three inodes in two entries, so that the table fills; `Shell`
pipes of one byte and too few pipes for the longest line; `ShParse` all lines of up
to four characters and the trees of depth three in two layouts; `Umalloc` a heap of
14 units; `Grep` all patterns of up to four characters on three texts.
`storage`: `FsBlocks` has one direct block, an indirect block of two entries, and a
disk that one large file fills; `Ext2Blocks` the same shape, with writes of one or two
blocks: with crashes and a disk for one file that reaches its indirect block, without
crashes and a disk for two such files, and with a double-indirect range and a disk for
two files that reach it, one call at a time there;
`Dirs` two processes, three inodes and paths of two names; `Mkfs` up to two files that
reach the indirect block.
`live` has smaller instances, because its properties are temporal: three processes and
one block in the log, two processes at the cache, one byte for each call at the pipe,
one CPU and three slots for `Proc`.
Symmetry is used only in runs without liveness, over values the modules never order
(processes, buffers, bytes, and files where their numbers do not matter).

**Shipped sizes.** `param.h` has `LOGSIZE` = `NBUF` = 3 * `MAXOPBLOCKS` and `mkfs`
a log of `LOGSIZE` blocks with the header. With `MAXOPBLOCKS` =
10, `Sized` (below) holds for calls of at most 9 blocks and `Roomy` for at most 8. A
turn of `filewrite` writes at most 1536 bytes, less than a block of 2048: two data
blocks, the indirect block, the bitmap and the inode, which is 5. `WriteFits` checks
that count in the same proportion. Other calls are not counted. The number of buffers
a call needs at once is not modelled either, so nothing is claimed about `NBUF`.

**Fairness.** Processes inside the kernel that can run do run: the scheduler
is round robin, hence weak fairness for a process that stays able to run. For `Log`, a
call that writes makes finitely many writes and ends: again and again each process
is outside (`[]<>(op[p] \notin {"in", "logging"})`). Drives finish commands and
interrupts are delivered. In `Proc` a CPU schedules again and again, a process that
gets the CPU again and again gets on with its call (strong fairness, since it loses the
CPU in between), the clock ticks, and `init` waits for its children as `init.c` does.
In `Shell` every process gets on. Crashes stop at some point, without which
a commit can be cut short for ever. Spurious interrupts are left out of `live`: they
can leave a command running for which nobody waits, and a process then spins in
`idewait` with `idelock` held, which the model shows as a disabled step; whether
transfers finish in that case is open. Nobody is assumed to start a call, to close an
end of a pipe, or to kill; a holder may keep its buffer as long as it likes.
`CHECK_DEADLOCK FALSE` is set where the system may stop: after a panic, when all
processes have left a pipe or exited, when `mkfs` is done.

## Proofs

The proofs about the log are in four modules, each extending the one before:
`LogInvariant` (the invariant; calls other than `log_write`, eviction),
`LogWriteProofs` (`log_write`, commit), `LogProofs` (recovery, crashes, the safety
theorems) and `LogRefinement`. They are separate because `tlapm` prepares
obligations ever more slowly as a module gets longer, until its own time limit
fails leaves that take a fraction of a second alone.

They prove, for every set of processes and blocks and every size, under
`Sized == OpBlocks <= MAXOPBLOCKS /\ LOGSIZE + OpBlocks < MAXOPBLOCKS + Nlog`:
`TypeCorrect`, `CommitIsAlone`, `LogNeverOverruns`, `SleepersHaveWakers`,
`EvictionLosesNothing`, and `LogIsAtomic`, that `Log` implements `JournaledStore`.
`NoCallPanics` needs the stronger `Roomy`, one more block. Both conditions are
sufficient; `log_overrun` shows that without `Sized` the log can outgrow its blocks.
TLC checks the same definitions on the `log` run, whose sizes meet `Sized`, except
`NoPanic`, which is only proved.

None of these is inductive alone. `IInv` adds: `CountInv` (`outstanding` counts
the calls), `ReserveInv` (log entries plus what calls may still append fit what was
reserved), `PhaseInv`, `LoopInv` (positions of the commit loops, distinct entries),
`HeaderInv` (the disk header holds the transaction exactly between commit and
erasure), `DataInv` (torn blocks are never recovered), `PinInv` and `CopyInv` (what
is pinned, logged and installed at each point), `QuietInv`. One lemma per action
shows that it keeps `IInv`, and one that it maps to a step of the store or to none.
The key of the refinement is that installing a logged block does not
change what recovery would restore (`ReplaySame`).

Only model-checked: the liveness properties, and everything about the components
other than the log. `ShParse`, `Grep` and `Ext2Dir` are recursive operators; what those
compute for every input is out of the prover's reach.

## Not modelled

- Drive errors, `ideinit`'s probing, `memide.c`.
- In `Dirs`: the step from `mnt` into ext2, `.` and `..` in paths, `sys_mknod`,
  `sys_chdir`, and links between the file systems.
- In ext2: the triple-indirect range, which `ext2_writei` never reaches: its limit
  `EXT2_MAXFILE * BSIZE` wraps in 32 bits to 262656 blocks, which end within the double
  indirect range; more than one block group; inodes larger than `struct ext2_inode`
  (`ext2_ialloc` strides by that size, `ext2_iupdate` and `ext2_ilock` by
  `s_inode_size`); bits of a bitmap for which the device has no block; what lies behind a
  bitmap block when `zeroth_bit` finds no free bit.
- Contents of pages, registers and argument stacks; permissions of pages.
- The boot loader, interrupt controllers, UART and keyboard tables: straight-line
  device programming. Formatting in `printf.c` and `cprintf`.
- In `Shell`: `cd`, the end of input, `exec` and `open` that fail, empty commands, and
  files behind redirections other than one output. `OutputRight` exempts lines during which
  a fork or a pipe failed or a background job ran. `Grep` reads files, not pipes, whose
  reads are short.
- The other user programs and the tests. The tests are quoted by findings.

What an overrun of the log overwrites is not modelled. A panic stops the process
that meets it, where the kernel would stop the machine, so the models have more
behaviours than the kernel. `Icache` has no hard links, no directories as inodes and
no device nodes; hard links and directories are in `Dirs`.

## Plan

1. Proofs: `Proc` (`ParentLives`, `RunningOnce`), `Files` (`FilesCounted`), `BufferCache`
   (`HoldsItsBlock`), `Pipe` (`SleepIsJustified`).
2. `Dirs` over both file systems, with the step through `mnt`.
3. The blocks that `create` and `unlink` write, against `Roomy`.
