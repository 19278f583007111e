# TLA+ models of xv6

This directory holds TLA+ models of the xv6-riscv kernel, of the program that
makes its disk image and of its user programs (`src/kernel`, `src/mkfs`,
`src/user`), TLC configurations that check them on small instances, and TLAPS
proofs about the write-ahead log, pipes, processes and the buffer cache. `PROJECT.json` maps every modelling definition
to the source lines it stands for and lists runs, mutants, hazards, findings and
theorems.

## 1. The system

| Part | Source | State | Operations | Model |
|---|---|---|---|---|
| Write-ahead log | `kernel/log.c` | `log.lh`, `outstanding`, `committing`; log area on disk | begin_op, log_write, end_op, commit, recovery | `Log`, `TxDisk` |
| Processes | `kernel/proc.c`, `swtch.S`, `sysproc.c` | process table, `p->lock`, `wait_lock`, CPUs | fork, exit, wait, kill, sleep, wakeup, yield, sched, scheduler | `Proc` |
| Traps, clock | `kernel/trap.c`, `plic.c`, `sysproc.c` | `ticks`, interrupt in service | usertrap, usertrapret, kerneltrap, devintr, clockintr, sys_sleep | `Proc`, `Devices` |
| Spin locks | `kernel/spinlock.c` | holder, `noff`, `intena` | acquire, release, push_off, pop_off | `Devices`; atomic elsewhere |
| Console, UART | `kernel/console.c`, `uart.c` | input ring, transmit ring | consoleread, consolewrite, consoleintr, uartintr, uartputc | `Devices`, `Terminal` |
| Pipes | `kernel/pipe.c` | ring, `nread`, `nwrite`, open flags | write, read, close | `Pipe`, `ByteQueue` |
| Buffer cache, sleep locks | `kernel/bio.c`, `sleeplock.c` | LRU list, `refcnt`, `valid`, buffer locks | bget, bread, bwrite, brelse, bpin, bunpin | `Bio`, `BlockStore` |
| Disk driver | `kernel/virtio_disk.c` | descriptors, avail and used rings | virtio_disk_rw, virtio_disk_intr | `VirtioDisk`, `AtomicDisk` |
| Inodes, names, open files | `kernel/fs.c`, `sysfile.c`, `file.c` | inode table, link counts, directories, `ftable`, descriptors | open, create, mkdir, mknod, link, unlink, chdir, dup, close, fork, exit | `Fs` |
| File contents | `kernel/fs.c`, `file.c`, `mkfs/mkfs.c` | bitmap, direct and indirect blocks, offsets | balloc, bfree, bmap, itrunc, readi, writei, fileread, filewrite, iappend | `InodeData` |
| Memory | `kernel/kalloc.c`, `vm.c`, `exec.c`, `proc.c` | free list, page tables, page contents | kalloc, kfree, walk, mappages, uvm*, copyin, copyout, copyinstr, exec, fork, sbrk | `Vm` |
| Shell | `user/sh.c` | command tree; processes and their descriptors | parsecmd, runcmd, main | `ShellParser`, `Shell` |
| primes | `user/primes.c` | stages, pipes | feed, filter | `Sieve` |
| Allocator of user programs | `user/umalloc.c` | free ring | malloc, free, morecore | `Umalloc` |
| Functions | `user/xargs.c`, `find.c`, `grep.c`, `ulib.c`, `printf.c`; `kernel/string.c`; skipelem | | | `Tools`, `Strings` |

The layers meet as follows. A system call on names or files runs between
`begin_op` and `end_op`. It locks inodes, finds their blocks with `bmap`, reads
them with `bread`, changes them and hands them to `log_write`, which pins the
buffer. The last `end_op` commits: log blocks, then the header, then the home
locations, then an empty header. The cache gets its blocks through
`virtio_disk_rw`, which sleeps until the interrupt handler has seen the
completion. All sleeping and waking goes through `proc.c`. Page tables and pipes
take their pages from `kalloc`. Programs see descriptors, pipes and memory only.

The models are cut along these lines, and each uses what the one below promises.
`Fs` takes the log for the transactional disk `TxDisk`, which `Log` is proved to
implement. `InodeData` takes buffers for the blocks of `BlockStore`, which `Bio` is
proved to implement, and what one transaction logs is counted against what `Log`
needs its callers to respect. `Shell` and `Sieve` take a pipe for the queue of
`ByteQueue`, which `Pipe` is proved to implement.
`Storage` puts `Vm` and `InodeData`, and `User` the user programs, side by side in
one specification in which one of them is at work; they share no state.

What is hard here: a power failure between any two disk writes; several calls
sharing one transaction; a lock handed across `swtch`; wakeups that must not be
lost; `kill`, which wakes any sleeper at any time; a device that completes out
of order and races the acknowledgement of its interrupt; a name looked up while
it is removed; allocations that fail half way through fork or exec; interrupts
on top of code that holds locks; pipe ends that somebody forgot to close.

## 2. Modules

**Log** (refines **TxDisk**). One action per critical section of `log.lock`, and
one per disk write of `commit()` and recovery. `Crash` may happen at any step,
recovery included, and loses memory. `cache` and `pin` are the part of the
buffer cache the log depends on; an unpinned buffer may be recycled any time.
A write of one block is atomic. `TxDisk` is a disk whose only durable change is
a commit of everything written so far, at a moment when no call is active. That
`kill` may wake a sleeper in `begin_op` is left out: it tests its condition again
and sleeps again.

**Proc.** Slots of the process table on several CPUs. `plock[s]` is the CPU that
holds `p->lock`, `inSched` says the process is between `sched()` and the
scheduler, still on its own stack with the lock held. `wakeup` takes one
`p->lock` per step. `MaxPid` caps `nextpid`.

**Pipe** (refines **ByteQueue**). One pipe, from `pipealloc` until its page is
freed. Each iteration of the loops of `pipewrite` and `piperead` is an action
under `pi->lock`. Dropping the last reference to an end (`fileclose`) and
`pipeclose` are separate actions, as they are under different locks. `nread` and
`nwrite` count modulo `Wrap` (2^32 in C). Failures of `copyin` and `copyout` are
alternatives of the steps in which they happen. `left` is `n - i`; a reader
shares `ch`, since only one can be in the copy loop.

**Bio** (refines **BlockStore**). `bget` up to the release of `bcache.lock`, the
buffer lock, the disk read, `bwrite`, `bpin`, `bunpin`, and the two halves of
`brelse` are separate actions. A caller that changes a buffer either writes it
through or has the log pin it. That is what `log.c` does, and `fs.c` except on one
path: `writei` releases a buffer that a failing `either_copyin` may have changed in
part (`fs.c:522-524`). `Bio` leaves that path out, so `IsStore` is about callers that
do not take it; `InodeData` has it (item 8 of section 4).
`bunpin` follows a `bwrite`, as in `install_trans`. A process holds one buffer
at a time (`write_log` and `bmap` hold two). `BlockStore` has one contents and
at most one user per block.

**VirtioDisk** (refines **AtomicDisk**). `vdisk_lock` is explicit, because the
device runs while the driver or the handler holds it. Filling in a request and
advancing `avail->idx` are two steps. The handler takes one used entry per step.
The device (external) takes requests in order, finishes them in any order,
always with status 0, and raises an interrupt after each. `RING` is the length
of the rings, which is `NUM` in the code; a shorter ring is a harder test.
`AtomicDisk` transfers a block at one instant between call and return.

**Fs.** Processes in system calls on names. A step is what a call does from
taking an inode's sleep lock to the next lock it takes or releases, or one
critical section of `itable.lock` or `ftable.lock`; so `namex` is a step per
component, `iput` up to four, `unlink` four. `it[i]` is the table's entry for
inode number `i` (the table of the model is large enough, `iget: no inodes` is
not reached), `L[p]` the local variables that hold a reference. A directory is a
function from names to inode numbers; its contents change with the inode that
lists it locked. `disk` is what the calls have written, `stable` what a reboot
finds: the last `end_op` copies one to the other, `crash` copies it back. Two
pieces of history say where a property makes an exception: the field `stray` of
the disk, inodes that got a link in a directory already removed, and `excused`,
inodes that no `iput` can be expected to free (see section 4). `create` fails for lack
of an inode or, after it has one, because `dirlink` finds no block for an entry
(`create_fail`); `link` because the name exists or for lack of that block (`link_full`).
Whether there is a block is a free choice in each call: blocks are not counted here.

**InodeData.** The blocks of files. A step is what is done under one `ilock`;
the transactions of `filewrite` are separate steps, and other programs read,
write, reopen and truncate in between. `fs.buf` is what the buffers hold, `fs.home`
what was logged; `recycle` makes a buffer that was changed and not logged lose
the change. A write ends early when the disk is full or, at any byte, when the
program's memory ends. `bytes` is the history the reads are compared with.
`DataInit` is the image that `mkfs` computes: `mkfs`, `iappend` and `MkAddr` follow
the code block by block. `InodeDataAssumption` says that the root directory does
not fill its last block, because `mkfs` rounds its size up even then.

**Vm.** The functions of `vm.c` are functions of the memory `m` (free pages, page
tables, contents) that return the memory they leave; fork, growproc, exec with
sys_exec, copyout, exit, wait and pipe allocation are the actions. An
operation is one step, because processes share only the free list and an
operation that has met an empty list only frees. Page tables have `LEVELS`
levels of `FAN` entries and are walked and freed as in the code. A page freed
twice or a remapped one sets `panic`. `image` is what each program should see,
computed without page tables. `VmAssumption` says that a process cannot grow into
its trapframe: nothing in `growproc` or `exec` compares sizes with it, but there is
less memory than that. Addresses are unbounded integers, so exec's test for
`vaddr + memsz` wrapping around is not represented.

**Devices** (refines **Terminal**). Actors are processes in `read`, `write` and
`sleep` and the interrupt handler of each CPU, which runs on top of what it
interrupted. A step lies between two accesses to shared state. `cpu` holds
`sstatus.SIE`, `noff` and `intena`; `acquire` and `release` are spelled out. `cons`
has the ring and its three indices modulo `Wrap`, `tx` the transmit ring, `uart` the
device (external): a receive queue, a transmit FIFO, a transmit interrupt,
the claim at the PLIC. All echo bytes are alike. `uartputc_sync` polls and
writes in two steps, without the lock, as the code does; the FIFO of
the 16550 has 16 places and at most one writer per CPU passes the poll, which
is the assumption `FIFO >= Cardinality(CPUs)`. Since `intena` has no meaning at
`noff = 0`, it is then kept TRUE. `intena` and `noff` belong to the CPU, and a process
sleeps and wakes on the CPU it started on: that `sched()` saves `intena` across `swtch`
for a process that wakes up on another CPU is not represented. `Terminal` is a line editor in front of a queue,
and a queue of output bytes.

**ShellParser, Shell.** The parser works on tokens; a word is known by its place.
`ParsesAs` compares it with a grammar. `Shell` runs the parsed line: a process
knows its command by the path from the root of the tree, has five descriptors and
stops in `wait`; `fork1`, `open` and `pipe` may fail. The programs are external: one
that reads a pipe reads to its end, one that writes a pipe writes more than it
holds, and each may stop early.

**Sieve.** main and the stages of `primes.c`, with the four ends each forgets or
closes. `room` is how many processes it may have, `nfile` how many entries of `ftable`;
the code looks at the result of neither `fork` nor `pipe`. A `fork` that fails takes
the parent's branch. A `pipe` that fails leaves the two descriptors uninitialised:
any descriptor of the process, the console or none. The console is one at which
nobody types.

**Umalloc, Tools, Strings.** malloc and free step by step on a ring of headers;
xargs, find, grep's matcher and its line buffer, skipelem, memmove (kernel's and
user's), strncpy, safestrcpy, strncmp, gets, printint and atoi as functions next
to definitions of what they should return.

`MCLog`, `MCProc`, `MCPipe`, `MCBio` and `MCVirtioDisk` only add symmetry sets.
`MCFs` lists calls, `MCStorage` programs and sizes and a view under which
states that differ only in the names of pages are one, `MCDevices` who makes which
call, `MCUser` command lines and arguments.

## 3. Runs

| Run | Instance | Shows |
|---|---|---|
| `log` | 2 processes, 3 blocks, 2 values, log of 4 | `TypeOK`, `CommitExcludesOps`, `DirtyIsPinned`, `NoStrandedSleeper`, `NoPanic`, `WriteAhead`; refinement `CrashAtomic`; liveness `LogProgress` |
| `proc_safety` | 3 slots, 2 CPUs | `SchedulerSound`, `NoLostWakeup`, `FamilySound` |
| `proc_live` | 3 slots, 2 CPUs with preemption, 3 pids; fork, wait and exit | liveness `OrphansReaped` |
| `pipe_fifo` | 3 processes, ring of 2, wrap at 4, one killable | `PipeSound`, `WakeupsArrive`; refinement `IsQueue` |
| `bio` | 3 processes, 2 buffers, 3 blocks, 2 values, 1 pin | `BuffersExact`; refinement `IsStore` |
| `virtio_disk` | 2 processes, 2 blocks, 6 descriptors | `DriverSound`, `CompletionsSeen`; refinement `IsDisk` |
| `virtio_live` | 4 processes, 1 block, reads only, 5 descriptors | `NoDescJustified`; liveness `RequestReturns` |
| `fs_names` | 2 processes, 3 inodes, 2 names, 4 calls, 2 from one crash to the next | `NoPanic`, `LocksAcyclic`, `CountsExact`, `Reclaimed` |
| `fs_dotdot` | 1 process, directories two deep, 6 calls | finding: `NoPanic` fails |
| `storage` | 2 processes, 18 pages of 2 bytes; 2 open files, 9 blocks of 2 words | `MemoryRight`, `UserCopiesRight`; `FilesRight`, `WriteFitsTransaction` |
| `devices` | 2 CPUs, 2 processes, ring of 2, 3 events | `InterruptSafe`, `SleepExact`; refinement `IsTerminal`; liveness `OutputDrains` |
| `user` | 6 processes, lines of 4 tokens and some longer; primes to 11 with up to 7 processes and 14 files; heap of 13 units | `RunsRight`, `SievesRight`, `HeapExact`, `CallsRight`; liveness `ProgramsFinish` |

What the properties with general names say:

- `SchedulerSound`: a process is on one CPU, its `p->lock` is held exactly while its
  state and its stack disagree, and no path returns with a lock.
- `FamilySound`: every process has a live parent, and a freed slot is clean.
- `OrphansReaped`: a process that exits becomes a zombie, and a zombie is freed unless
  its parent lives and does not wait.
- `PipeSound`: counters stay within a ring of each other, and when a pipe is
  freed nobody has an end of it or is in `pipe.c`. `WakeupsArrive`: nobody sleeps on a pipe who could
  go on, or whose other end is closed.
- `BuffersExact`: one buffer per block, `refcnt` counts holders, waiters and pins,
  who sleeps on a buffer has a holder in front, `bget` panics only when all buffers
  are in use.
- `DriverSound`: each descriptor is free, or in the chain of one request, and the
  panics of the driver are out of reach. `CompletionsSeen`: a used entry the driver has not looked at
  has an interrupt pending, or the handler on its way.
- `LocksAcyclic`: no two processes wait for each other's inodes, and `iput` never
  waits for one.
- `CountsExact`: `ip->ref` and `f->ref` are the number of pointers, and on the disk a
  reboot finds, `nlink` is the number of names (for a directory, also of its
  subdirectories).
- `Reclaimed`: an inode without names that nobody uses is free.
- `MemoryRight`: every page is in one place, nothing is lost when an allocation
  fails, and the page table translates to what the program should see.
- `FilesRight`: reads return what was written; every block is in one place.
- `InterruptSafe`: no handler can spin for a lock its own CPU holds, and interrupts
  come back on.
- `RunsRight`: a program starts with the right files and after the right others.
- `SievesRight`: the primes in order and none left out; all that there are processes
  and files for; nothing else unless a `pipe()` failed.
- `CallsRight`: the parser, the tools and the string routines return what a
  definition written without their loops and buffers says.

**Bounds.** Three processes give a holder, a waiter and one that barges in;
`log`, `virtio_disk`, `fs_names` and `storage` have two, for size, and so no third
to barge. Three slots give init, a parent and a child. Two blocks are the least
that a crash can tear apart, a third is absorbed or left alone. Rings of one or
two entries are full, empty and wrap within a few steps. Six descriptors let two
requests be in the device at once. Five, for four processes, let one be there and
leave two over, so that `alloc3_desc` takes both, gives them back and thereby wakes the
other waiters, of which there are up to two. With four processes and enough
descriptors for two requests as well, liveness is out of TLC's reach; that no
completion is overlooked when two are finished at once is the invariant
`CompletionsSeen` of `virtio_disk`. Only `virtio_live` runs out of descriptors, and it
only reads, so `IsDisk` is not checked on an exhausted table. Two buffers for three processes and three blocks
make recycling constant, and `bget` also reaches its panic, after which the model
stops. The kernel has 30 buffers, up to 29 pins and 64 processes, so
`BuffersExact` does not exclude the panic for the kernel as configured: it says
that only real use of all buffers leads to it.

`MaxCalls` bounds the calls before the first crash and `MaxAgain` those from
one crash to the next; crashes are not bounded. Four calls of two processes are
enough for a lookup, a removal and a re-creation of the same number to overlap,
two for a race on whatever a crash left. The tree of `fs_names` is one
directory deep: deeper ones run into `fs_dotdot`. With 18 pages two small
processes fit and the exec of one with its old memory does not always, so every
allocation of fork, exec and sbrk fails in some state. Nine blocks let one file
reach its indirect block and fill the disk. A bitmap block stands for one data
block (`BPB = 1`), the worst case for the log. In `devices` the counters start
just below their wrap (`Since`) and `MaxEvents` bounds keystrokes, calls, ticks and
kills; three events suffice for a read, a key and a write to meet, not for a
ring that fills twice. In `user`, `NFiles` and `Rooms` let the first `pipe()` or `fork` of primes fail, a later
one, or none (of 100 files in the kernel, 59 primes up to 280 and 64 processes); `LIMIT` ends the heap, and functions get all arguments
up to the lengths in `MCUser`.

**Deadlock** checking is off for pipes (all processes may have closed it), for
`bio` (a panic stops it), for the driver (nobody need make a request), for `fs_names`
and `fs_dotdot` (`MaxCalls`), for `devices`
(`MaxEvents`) and for `user` (a line ends).

**Fairness.** Processes that can run do run: schedulers go round the whole table
and the timer preempts. Where a step needs a spin lock, strong fairness says that
a CPU that spins gets the lock in the end. The hardware's atomic swap does not
promise that; it is an assumption. In `Log`, a call reaches `end_op`. In `Proc`,
the timer of each CPU interrupts what it runs, a process that is RUNNABLE again and
again is found by some scheduler, and init calls `wait()` again and again, as
`init.c` does. In `VirtioDisk`, the device
finishes what it took and the handler runs after its interrupt. In `Devices`, the
UART sends, and a CPU that turns interrupts on again and again takes a pending
one. In `User`, a program that can go on does; stopping early is never forced.
No fairness is assumed for system calls being made, for kills or for crashes.
Individual starvation in `acquiresleep` or at `disk.free` is not excluded by the
code, and not claimed.

**Mutants.** For every property `PROJECT.json` names at least one small change of
the code's translation that breaks it (a dropped wakeup, an off-by-one, a missing
reset). Properties that are conjunctions have one per conjunct where the
conjuncts guard different mistakes.

## 4. Findings, and what the properties excuse

1. `fs_dotdot`: the ".." entry of a removed directory is not counted as a link of
   its parent. After `mkdir d`, `mkdir d/e`, `chdir d/e`, `unlink d/e`, `unlink d` the
   parent's inode is free, and ".." leads `ilock` to `panic("ilock: no type")`.

Behaviour of the code that the models contain and that a property had to make
room for:

2. `log_write` panics at `log.size - 1` blocks while `begin_op` admits calls up to
   `LOGSIZE`; calls that used all of `MAXOPBLOCKS` would meet the panic. `NoPanic` is
   proved for calls that leave two blocks of it unused (`OpWrites`). The run `log` has
   calls that leave one of two unused, which is enough for its sizes.
3. `kill(0)` matches UNUSED slots; the flag survives into the next process.
   `FamilySound` says nothing about `killed`.
4. A writer killed after storing bytes leaves `pipewrite` without waking readers.
   `WakeupsArrive` excuses a sleeping reader of a pipe that is not empty when some
   process has been killed.
5. `iput` frees an inode on disk, then releases its lock, then decrements `ref`. In
   between the number can be allocated again, and the table entry is shared; if
   the new file is unlinked and put first, the late `ref--` does not look at
   `nlink` again and the inode stays allocated, against the comment at
   `fs.c:332-333`. `Reclaimed` excuses inodes whose number was reused that way.
6. After a crash an inode that was unlinked and open stays allocated; nothing
   looks for it at boot. `Reclaimed` excuses these too.
7. `create` and `link` may write into a directory that was removed while they
   waited for its lock. The link is counted for ever; `CountsExact` allows such
   inodes (`stray`) more links than names.
8. A write that fails at the end of the program's memory leaves bytes in a buffer
   that is not logged. Readers see them until the buffer is recycled; `FilesRight`
   allows either byte there.
9. find needs two descriptors per level and gives up below that depth; grep stops at
   a line longer than its buffer and never looks at a last line without a newline.
   `CallsRight` is stated for inputs without these, and for find down to that depth.
   xargs drops what it has of a word when it reaches the end of its buffer, and goes
   on with the rest of it; the word may leave an empty argument. `CallsRight` says
   exactly what arrives.
10. A shell process whose second fork fails panics and leaves its first child
    behind; the order `RunsRight` promises for `;` holds when no fork or pipe failed.
11. primes ignores a `pipe()` that fails. The stage that meets it is the last one; it
    may write raw integers to the console, and its child may read the console for
    ever. `SievesRight` allows the bytes after the last prime, and `ProgramsFinish` the
    wait. A pipe of stage `k` is made when up to `2k` ends of earlier ones are open, so
    59 primes may need more than the 100 entries of `ftable`; early stages have then
    to be slow to end.

A `kill` between the `killed()` test of `wait()` and its `sleep()` leaves the victim
asleep until a child exits. The model contains that window; `kill` only promises
an exit when the victim next returns to user space.

## 5. Proofs

The proofs are for every value of the constants that satisfies the assumption named
in the module: any number of processes, CPUs, buffers, blocks, values, slots of the
table and pids, and any sizes.

**The log** (`LogAssumption`: sizes are naturals, `nlog > 0`, one reservation fits the
log, and there are finitely many processes). `LogInvariant` defines the inductive
invariant `IInv` and treats the steps of recovery and of the calls, `LogProofs` those
of `commit()` and the rest; there `Invariance` is proved, `Spec => []IInv`. The safety
properties are not inductive: that a crash is harmless while blocks are installed
depends on the log copies still being those the header names, and that depends on how
far the committer is. `IInv` therefore says, per step of commit and recovery, which of
buffer, log copy, header and home location agree (`DataInv`, `RecoverInv`); that at
most one process commits and `committing` tells so (`CommitInv`); that `outstanding`
counts the active calls (`CountInv`); and that exactly the blocks of `log.lh` not yet
installed are pinned, once (`PinInv`). There is one lemma per action. From `IInv` follow
`TypeCorrect`, `CommitExclusion`, `PinSafety`, `WriteAheadRule` and `CrashAtomicity`: `Log`
implements `TxDisk`. The abstract commit is the header write; every other step of
commit and recovery is a stutter.

`LogSpaceProofs` proves `NoLostLogWakeup` and `ReservationSuffices`. The latter
assumes `Roomy`: a call logs at most `MAXOPBLOCKS - 2` distinct blocks and the log
area has `LOGSIZE` blocks. Its argument is that logged blocks plus the unused part
of each reservation never exceed `LOGSIZE`. That the kernel's callers satisfy
`Roomy` is not proved. `WriteFitsTransaction` checks the weaker bound `MAXOPBLOCKS`
for `filewrite`, on a small instance with one bitmap block per data block; with
the kernel's one bitmap block, four data blocks (three, not aligned), an indirect
block and the inode make seven of ten, which `Roomy` allows.

**Pipes** (`PipeAssumption`: the counters wrap at a multiple of the ring's length).
`PipeProofs` proves `PipeStaysSound`, `PipeWakeups` and `PipeIsQueue`, for any ring, any
set of processes with ends of the pipe and any set of them that may be killed. The
invariant adds to `PipeSound` who holds `pi->lock`, and what each program counter says
about the ends a process has.

**Processes** (`ProcAssumption`). `ProcInvariant` defines `PInv`: which lock is held at
which program counter and by which CPU (`CpuInv`, `LocksInv`, `PcInv`), what a half-made
child looks like (`ForkInv`), how parents and pids are related (`FamilyInv`, `PidInv`),
and, for a sleeper in `wait()`, that `wakeup` has still to pass its slot when a child has
become a zombie (`SleepInv`, `WakeInv`). `ProcProofs` concludes `SchedulerStaysSound`,
`NoWakeupLost` and `FamilyStaysSound`.

**Buffer cache** (`BioAssumption`). `BioProofs` proves `BuffersStayExact` from `BInv`, which adds
to `BuffersExact` who holds which buffer, that a buffer in use stands for a block, and
that a valid buffer nobody has changed agrees with the disk. `BioRefinement` proves
`CacheIsStore`: `Bio` implements `BlockStore`, with the restriction on callers that
section 2 names.

Only model-checked: all liveness properties (fairness is out of the prover's reach),
and everything about the modules `VirtioDisk`, `Fs`, `InodeData`, `Vm`, `Devices` and those of
the user programs. `Vm`, `Umalloc`, `ShellParser`, `Tools` and `Strings` use recursive
operators, which the prover does not support.

## 6. Not modelled

- The dispatch of system calls and the fetching of arguments (`syscall.c`): no
  state. `fetchstr` and `fetchaddr` are `copyinstr` and `copyin`, which are modelled.
- Boot and register set-up (`entry.S`, `start.c`, `main.c`, `plicinit`), the assembly
  of traps and of `swtch`, the kernel's own page table, bit layouts: code that runs once
  and has no interleaving, or that is below the level of these models.
- `fstat`, `procdump`, `sys_uptime` only read. `sys_pipe`'s undoing after a failed
  `copyout`, and `pipealloc`'s, are not modelled; nor is the inode table running
  full (`iget: no inodes`), or a disk error, at which
  the kernel panics.
- Formatting (`printf.c` but for `printint`), and `cat`, `echo`, `kill`, `ln`, `ls`,
  `mkdir`, `rm`, `wc`, `zombie`, `pingpong`: loops around single system calls.
- The tests (`usertests.c`, `grind.c`, `stressfs.c`, `forktest.c`) are drivers; they are
  a source of expectations.
- `Fs` and `InodeData` are not composed: a model with names, contents and the
  log's crashes at once is out of TLC's reach. Nor is `Bio` with processes that
  hold two buffers.
